---- MODULE Spec2Model ----
(***************************************************************************)
(* State-machine model of the s2j_led_driver control engine:               *)
(*   registry.py       LedRegistry (drivers/outputs, groups, switches,     *)
(*                     buttons, serial log, commit)                        *)
(*   manager.py        LedDriverManager (event reconciliation, group       *)
(*                     commands, PWM dispatch, button state machine)       *)
(*   serial_helper.py  SerialHelper (reader/writer loops, reconnect)       *)
(* Each handler is one atomic action.  Python's None is the empty          *)
(* sequence and a present value v is <<v>>.                                 *)
(***************************************************************************)
EXTENDS Integers, Sequences, FiniteSets, TLC

VARIABLES
    drivers,      \* registry "drivers": driver id -> record with its 4 outputs
    groups,       \* registry "groups": group id -> [led_ids, is_on, brightness]
    helpers,      \* manager _serial_helpers: controller -> "absent"/"connected"/"down"
    op,           \* the handler that ran last and what it observed
    logged,       \* serial_log entries appended by the last handler
    ncommit,      \* async_commit calls made by the last handler
    sent,         \* messages the last handler handed to JsonHelper.async_send
    result,       \* outcome of the last handler: "ok", "queued", "error", "none"
    pwmMap,       \* arguments and return value of the last build_group_pwm_map
    switches,     \* registry "switches": switch id -> [switch, button_count]
    buttons,      \* registry "buttons": button id -> [switch_id, switch, mask, group_id]
    ssr,          \* registry "ssr": [base_address, entries: entry id -> [bit_index, is_on]]
    learned,      \* registry "learned_buttons": the (switch, mask) pairs of its keys
    buttonStates, \* manager _button_states: (switch, mask) -> _ButtonState
    switchMasks,  \* manager _switch_masks: switch -> last reported mask
    reported,     \* the last mask each switch has reported (history of the events)
    now,          \* monotonic clock, in tenths of a second
    port,         \* whether the serial port can be opened
    link,         \* the SerialHelper of one controller
    wire,         \* lines written to the serial link, oldest first
    accepted,     \* lines async_send has enqueued since the queues were last cleared
    listener,     \* JsonHelper's listener task of one helper and its read_queue
    sync,         \* controller c1 in the registry, its entry in _serial_helpers,
                  \* its SerialHelper objects, listener and poll tasks, and the
                  \* running _sync_clients tasks
    tasks,        \* the manager's background tasks and the position of async_shutdown
    events,       \* the tasks created for inbound events, each at its await, the
                  \* registry's _save_lock, and the order of their mutations
    conn,         \* one SerialHelper with its tasks, each at its await
    controllers,  \* registry "controllers": controller id -> [has_can_interface]
    json_helper   \* a JsonHelper: its helper and listener tasks of one name,
                  \* the queues of the SerialHelpers and the callbacks invoked

coreVars == <<drivers, groups, helpers>>
histVars == <<op, logged, ncommit, sent, result>>
pwmVars == <<pwmMap>>
switchVars == <<switches, buttons, ssr, learned>>
buttonVars == <<buttonStates, switchMasks, reported, now>>
linkVars == <<port, link, wire, accepted>>
jsonVars == <<listener>>
syncVars == <<sync>>
taskVars == <<tasks, events>>
connVars == <<conn>>
controllerVars == <<controllers>>
dispatchVars == <<json_helper>>
serviceVars == <<jsonVars, syncVars, taskVars, connVars, controllerVars, dispatchVars>>
vars == <<drivers, groups, helpers, op, logged, ncommit, sent, result, pwmMap,
          switches, buttons, ssr, learned, buttonStates, switchMasks, reported, now, port, link, wire,
          accepted, listener, sync, tasks, events, conn, controllers, json_helper>>

None == << >>
Some(v) == <<v>>

Max(a, b) == IF a >= b THEN a ELSE b
Min(a, b) == IF a <= b THEN a ELSE b

-----------------------------------------------------------------------------
(* Program constants *)

TOTAL_OUTPUTS_PER_DRIVER == 4
PWM_STEP_SIZE == 1
MantissaBits == 53
LimbBits == 16

Slots == 0..(TOTAL_OUTPUTS_PER_DRIVER - 1)

-----------------------------------------------------------------------------
(* IEEE-754 double arithmetic on non-negative values, as Python's float    *)
(* does it: a value is [int, frac] with frac the binary fraction digits,   *)
(* most significant first; every operation rounds to MantissaBits          *)
(* significant digits, ties to even.                                       *)

\* 2^e modulo d
RECURSIVE Pow2Mod(_, _)
Pow2Mod(e, d) ==
    IF e = 0 THEN 1 % d
    ELSE LET h == Pow2Mod(e \div 2, d)
         IN  IF e % 2 = 0 THEN (h * h) % d ELSE (2 * h * h) % d

\* what is left of n after k binary digits of n / d (n < d)
DivRem(n, d, k) == (n * Pow2Mod(k, d)) % d

\* the first k binary digits of the fraction n / d (n < d)
DivBits(n, d, k) == [i \in 1..k |-> (2 * DivRem(n, d, i - 1)) \div d]

RECURSIVE BitLen(_)
BitLen(n) == IF n = 0 THEN 0 ELSE 1 + BitLen(n \div 2)

LeadingZeros(bits) ==
    IF \A i \in 1..Len(bits) : bits[i] = 0 THEN Len(bits)
    ELSE (CHOOSE i \in 1..Len(bits) :
             bits[i] = 1 /\ \A j \in 1..(i - 1) : bits[j] = 0) - 1

\* round to nearest, ties to even, keeping MantissaBits significant digits
Round53(x) ==
    LET keep == IF x.int > 0 THEN MantissaBits - BitLen(x.int)
                ELSE LeadingZeros(x.frac) + MantissaBits
        n == Len(x.frac)
    IN  IF n <= keep THEN x
        ELSE LET kept == SubSeq(x.frac, 1, keep)
                 guard == x.frac[keep + 1]
                 sticky == \E i \in (keep + 2)..n : x.frac[i] = 1
                 lsb == IF keep = 0 THEN x.int % 2 ELSE x.frac[keep]
                 up == guard = 1 /\ (sticky \/ lsb = 1)
                 zs == {i \in 1..keep : kept[i] = 0}
                 last0 == CHOOSE i \in 1..keep :
                              kept[i] = 0 /\ \A j \in (i + 1)..keep : kept[j] = 1
             IN  IF ~up THEN [int |-> x.int, frac |-> kept]
                 ELSE IF zs = {} THEN [int |-> x.int + 1, frac |-> [i \in 1..keep |-> 0]]
                 ELSE [int |-> x.int,
                       frac |-> [i \in 1..keep |-> IF i < last0 THEN kept[i]
                                                    ELSE IF i = last0 THEN 1 ELSE 0]]

\* n / d for integers n >= 0, d > 0; the digit after the generated ones
\* stands for the non-zero tail of the expansion
FloatDiv(n, d) ==
    LET k == MantissaBits + 9
        r == n % d
    IN  Round53([int |-> n \div d,
                 frac |-> DivBits(r, d, k) \o (IF DivRem(r, d, k) # 0 THEN <<1>> ELSE << >>)])

\* the digits lo..hi of bits read as one binary number (absent digits are 0)
RECURSIVE PackBits(_, _, _)
PackBits(bits, lo, hi) ==
    IF lo > hi THEN 0
    ELSE 2 * PackBits(bits, lo, hi - 1) + (IF hi <= Len(bits) THEN bits[hi] ELSE 0)

\* limbs j..n of (bits * r), LimbBits digits each, with the carry out of limb j
RECURSIVE MulLimbs(_, _, _, _)
MulLimbs(bits, r, j, n) ==
    IF j > n THEN [carry |-> 0, limbs |-> << >>]
    ELSE LET rest == MulLimbs(bits, r, j + 1, n)
             t == PackBits(bits, (j - 1) * LimbBits + 1, j * LimbBits) * r + rest.carry
         IN  [carry |-> t \div (2^LimbBits), limbs |-> <<t % (2^LimbBits)>> \o rest.limbs]

\* x * r for an integer r >= 0
FloatMul(x, r) ==
    LET n == (Len(x.frac) + LimbBits - 1) \div LimbBits
        m == MulLimbs(x.frac, r, 1, n)
    IN  Round53([int |-> x.int * r + m.carry,
                 frac |-> [i \in 1..Len(x.frac) |->
                              (m.limbs[(i - 1) \div LimbBits + 1]
                                   \div (2^(LimbBits - 1 - ((i - 1) % LimbBits)))) % 2]])

\* m + x for an integer m >= 0
FloatAdd(m, x) == Round53([int |-> x.int + m, frac |-> x.frac])

\* int(): truncation
FloatTrunc(x) == x.int

\* brightness_value / 100.0 for the clamped brightness 0..100
BrightnessFraction == [b \in 0..100 |-> FloatDiv(b, 100)]

\* registry.py:963  int(min_pwm + (max_pwm - min_pwm) * (brightness_value / 100.0))
PwmForBrightness(min_pwm, max_pwm, brightness_value) ==
    FloatTrunc(FloatAdd(min_pwm, FloatMul(BrightnessFraction[brightness_value],
                                          max_pwm - min_pwm)))

-----------------------------------------------------------------------------
(* Registry: drivers, outputs, groups (registry.py) *)

CtrlIds == {"c1", "c2"}
DriverIds == {"d1", "d2"}
GroupIds == {"g1", "g2"}

\* get_drivers() / iter_driver_outputs(): dict order
DriverOrder == <<"d1", "d2">>

OutId(d, s) == <<d, s>>

\* _normalize_driver_outputs with neither incoming nor previous data
DefaultOutput(d, s) ==
    [id |-> OutId(d, s), slot |-> s, channels |-> {s}, disabled |-> FALSE,
     faulty |-> FALSE, pwm |-> 0, level |-> 0, min_pwm |-> 0, max_pwm |-> 255,
     target_pwm |-> 0]

\* one slot of _normalize_driver_outputs: incoming fields win over previous
\* ones, a disabled output is forced dark and fault-free
NormalizeOutput(inc, prev) ==
    LET merged == [f \in DOMAIN prev |-> IF f \in DOMAIN inc THEN inc[f] ELSE prev[f]]
    IN  IF merged.disabled
        THEN [merged EXCEPT !.level = 0, !.pwm = merged.min_pwm,
                            !.target_pwm = merged.min_pwm, !.faulty = FALSE]
        ELSE merged

PresentDrivers == DOMAIN drivers

\* every (driver id, slot) pair stored in the registry
AllOutputs == {OutId(d, s) : d \in PresentDrivers, s \in Slots}

OutputOf(oid) == drivers[oid[1]].outputs[oid[2]]

\* get_output_entry
OutputExists(oid) == oid[1] \in PresentDrivers

\* resolve_output_ids: the ids that resolve, in the order given
ResolveOutputIds(ids) == SelectSeq(ids, OutputExists)

SeqToSet(q) == {q[i] : i \in 1..Len(q)}

\* the channels an output drives: its channel list, else its slot
OutputChannels(o) == IF o.channels # {} THEN o.channels ELSE {o.slot}

-----------------------------------------------------------------------------
(* Manager: inbound event reconciliation (manager.py) *)

\* a matcher that returns channel matches and slot matches together
MatchOutputsEither(drv, controller_id, driver_index, channel, slot) ==
    {o \in {OutId(d, s) : d \in DOMAIN drv, s \in Slots} :
        /\ drv[o[1]].controller_id = controller_id
        /\ (driver_index = None \/ drv[o[1]].driver_index = driver_index[1])
        /\ ~drv[o[1]].outputs[o[2]].disabled
        /\ \/ channel # None /\ channel[1] \in drv[o[1]].outputs[o[2]].channels
           \/ slot # None /\ drv[o[1]].outputs[o[2]].slot = slot[1]}

\* _match_outputs: channel matches take priority over slot matches;
\* disabled outputs never match
MatchOutputs(drv, controller_id, driver_index, channel, slot) ==
    LET cand == {d \in DOMAIN drv :
                    /\ drv[d].controller_id = controller_id
                    /\ (driver_index = None \/ drv[d].driver_index = driver_index[1])}
        outs == {OutId(d, s) : d \in cand, s \in Slots}
        live == {o \in outs : ~drv[o[1]].outputs[o[2]].disabled}
        channel_matches ==
            {o \in live : channel # None /\ channel[1] \in drv[o[1]].outputs[o[2]].channels}
        slot_matches ==
            {o \in live : slot # None /\ drv[o[1]].outputs[o[2]].slot = slot[1]}
    IN  IF channel_matches # {} THEN channel_matches ELSE slot_matches

\* level_val of _apply_channel_state_event (lines 765-773)
EventLevel(ev) ==
    IF ev.level # None THEN ev.level
    ELSE IF ev.on # None THEN Some(IF ev.on[1] THEN 1 ELSE 0)
    ELSE IF ev.sa # "" THEN Some(IF ev.sa \in {"on", "true", "1"} THEN 1 ELSE 0)
    ELSE None

\* the per-output body of _apply_channel_state_event (lines 775-799)
ApplyChannelState(o, ev) ==
    LET level_val == EventLevel(ev)
        o1 == IF level_val # None /\ o.level # level_val[1]
              THEN [o EXCEPT !.level = level_val[1]] ELSE o
        o2 == IF ev.pwm # None /\ o1.pwm # ev.pwm[1]
              THEN [o1 EXCEPT !.pwm = ev.pwm[1]]
              ELSE IF level_val # None
                   THEN IF level_val[1] # 0
                        THEN [o1 EXCEPT !.pwm = o1.max_pwm]
                        ELSE [o1 EXCEPT !.pwm = o1.min_pwm]
                   ELSE o1
    IN  IF o.disabled THEN o
        ELSE IF ev.flt # None /\ o2.faulty # ev.flt[1]
             THEN [o2 EXCEPT !.faulty = ev.flt[1]] ELSE o2

\* the per-output body of _apply_fault_event (lines 826-834)
ApplyFault(o, is_fault) ==
    IF o.disabled THEN [o EXCEPT !.faulty = FALSE]
    ELSE [o EXCEPT !.faulty = is_fault]

\* a flag that a fault switches off
GroupShouldBeOnUnfaulted(drv, g) ==
    LET ids == {oid \in SeqToSet(g.led_ids) : oid[1] \in DOMAIN drv}
        active == {oid \in ids : ~drv[oid[1]].outputs[oid[2]].disabled}
    IN  /\ active # {}
        /\ \A oid \in active :
              LET o == drv[oid[1]].outputs[oid[2]] IN o.level > 0 /\ ~o.faulty

\* the derived on/off flag of a group (lines 880-887)
GroupShouldBeOn(drv, g) ==
    LET ids == {oid \in SeqToSet(g.led_ids) : oid[1] \in DOMAIN drv}
        active == {oid \in ids : ~drv[oid[1]].outputs[oid[2]].disabled}
    IN  /\ active # {}
        /\ \A oid \in active :
              LET o == drv[oid[1]].outputs[oid[2]] IN o.level > 0 \/ o.faulty

\* _update_groups_from_output_ids: the groups after recomputing those that
\* contain one of output_ids
UpdateGroupsFromOutputIds(drv, grp, output_ids) ==
    [g \in DOMAIN grp |->
        IF SeqToSet(grp[g].led_ids) \cap output_ids = {} THEN grp[g]
        ELSE [grp[g] EXCEPT !.is_on = GroupShouldBeOn(drv, grp[g])]]

\* the set _update_groups_from_output_ids returns
FlippedGroups(old, new) == {g \in DOMAIN old : old[g].is_on # new[g].is_on}

\* async_append_serial_log: one entry on the controller's serial_log
\* (capped at SerialLogCap), and one commit
LogEntry(controller_id, direction) == [ctrl |-> controller_id, dir |-> direction]

\* what the last handler did: its kind, the controller or group it was
\* about, the outputs it matched and changed, the groups whose is_on flipped
OpRecord(kind, target, matched, changed, flips) ==
    [kind |-> kind, target |-> target, matched |-> matched,
     changed |-> changed, flips |-> flips]

-----------------------------------------------------------------------------
(* Bounded inputs and initial registry contents *)

oA == OutId("d1", 0)
oB == OutId("d1", 1)
oC == OutId("d2", 0)

ControllerOf == [d \in DriverIds |-> IF d = "d1" THEN "c1" ELSE "c2"]

\* configured outputs: oA and oB share driver d1 on c1, oC is on c2
ConfiguredOutput(d, s, chans, lo, hi) ==
    [DefaultOutput(d, s) EXCEPT !.channels = chans, !.min_pwm = lo, !.max_pwm = hi,
                                !.pwm = lo, !.target_pwm = lo]

\* the states an enabled output can be left in by events and commands
EnabledStates(base) ==
    {[base EXCEPT !.level = l, !.faulty = f, !.pwm = p, !.target_pwm = p] :
        l \in {0, 1}, f \in BOOLEAN, p \in {base.min_pwm, base.max_pwm}}

DisabledState(base) == NormalizeOutput([disabled |-> TRUE], base)

GroupLayouts ==
    { [g1 |-> <<oA>>, g2 |-> <<oA, oB>>],
      [g1 |-> <<oB>>, g2 |-> <<oA, oB, oC>>] }

InitDrivers(a, b, c) ==
    [d \in DriverIds |->
        [controller_id |-> ControllerOf[d], driver_index |-> 0,
         outputs |-> [s \in Slots |->
            IF OutId(d, s) = oA THEN a
            ELSE IF OutId(d, s) = oB THEN b
            ELSE IF OutId(d, s) = oC THEN c
            ELSE DefaultOutput(d, s)]]]

InitGroups(drv, layout) ==
    [g \in GroupIds |->
        LET rec == [led_ids |-> layout[g], is_on |-> FALSE,
                    brightness |-> IF g = "g1" THEN 50 ELSE 100]
        IN  [rec EXCEPT !.is_on = GroupShouldBeOn(drv, rec)]]

NoOp == OpRecord("init", "none", {}, {}, {})

InitHistory ==
    /\ op = NoOp
    /\ logged = << >>
    /\ ncommit = 0
    /\ sent = << >>
    /\ result = "none"

\* the parts of the program a specification leaves at rest
IdlePwm == pwmMap = None
IdleSwitches == switches = << >> /\ buttons = << >> /\ ssr = << >> /\ learned = {}
IdleButtons == buttonStates = << >> /\ switchMasks = << >> /\ reported = << >> /\ now = 0
IdleLink == port = FALSE /\ link = None /\ wire = << >> /\ accepted = {}
IdleJson == listener = None
IdleSync == sync = None
IdleTasks == tasks = None /\ events = None
IdleConn == conn = None
IdleControllers == controllers = None
IdleDispatch == json_helper = None
IdleServices == IdleJson /\ IdleSync /\ IdleTasks /\ IdleConn /\ IdleControllers /\ IdleDispatch

AllConnected == [c \in CtrlIds |-> "connected"]

\* registry contents the upserts and events of the program can produce:
\* every group's is_on agrees with its members
InitRegistry ==
    \E a \in EnabledStates(ConfiguredOutput("d1", 0, {0}, 1, 3)),
       b \in EnabledStates(ConfiguredOutput("d1", 1, {0, 1}, 0, 2))
               \cup {DisabledState(ConfiguredOutput("d1", 1, {0, 1}, 0, 2))},
       layout \in GroupLayouts :
         /\ drivers = InitDrivers(a, b, ConfiguredOutput("d2", 0, {0}, 0, 2))
         /\ groups = InitGroups(drivers, layout)

Init ==
    /\ InitRegistry
    /\ helpers = AllConnected
    /\ InitHistory
    /\ IdlePwm /\ IdleSwitches /\ IdleButtons /\ IdleLink
    /\ IdleServices

\* inbound channel-state events (led.enable / led.channel_state / led.disable)
NoField == [dvr |-> None, c |-> None, i |-> None, level |-> None, on |-> None,
            sa |-> "", pwm |-> None, flt |-> None]

EventAddresses ==
    { [dvr |-> Some(0), c |-> Some(0), i |-> None],
      [dvr |-> Some(0), c |-> Some(1), i |-> None],
      [dvr |-> Some(0), c |-> None,    i |-> Some(1)],
      [dvr |-> Some(0), c |-> Some(7), i |-> None],
      [dvr |-> Some(5), c |-> Some(0), i |-> None],
      [dvr |-> None,    c |-> None,    i |-> None] }

EventPayloads ==
    { [level |-> Some(1), on |-> None, sa |-> "", pwm |-> None, flt |-> None],
      [level |-> None, on |-> Some(FALSE), sa |-> "", pwm |-> None, flt |-> None],
      [level |-> None, on |-> None, sa |-> "on", pwm |-> Some(2), flt |-> None],
      [level |-> None, on |-> None, sa |-> "", pwm |-> Some(2), flt |-> Some(TRUE)] }

ChannelEvents ==
    {[dvr |-> a.dvr, c |-> a.c, i |-> a.i, level |-> p.level, on |-> p.on,
      sa |-> p.sa, pwm |-> p.pwm, flt |-> p.flt] : a \in EventAddresses, p \in EventPayloads}

FaultEvents == {[NoField EXCEPT !.dvr = a.dvr, !.c = a.c, !.i = a.i] : a \in EventAddresses}

-----------------------------------------------------------------------------
(* Event handlers *)

\* drv with the outputs in DOMAIN updated replaced by their updated records
MapOutputs(drv, updated) ==
    [d \in DOMAIN drv |->
        [drv[d] EXCEPT !.outputs =
            [s \in Slots |-> IF OutId(d, s) \in DOMAIN updated THEN updated[OutId(d, s)]
                             ELSE drv[d].outputs[s]]]]

\* changed_output_ids: the outputs whose record differs between drv and new
ChangedOutputs(drv, new) ==
    {o \in {OutId(d, s) : d \in DOMAIN drv \cap DOMAIN new, s \in Slots} :
        drv[o[1]].outputs[o[2]] # new[o[1]].outputs[o[2]]}

\* an event tail that commits whether or not an output changed
CommitEventAlways(kind, controller_id, matches, nlog) ==
    LET changed == ChangedOutputs(drivers, drivers')
    IN  /\ groups' = UpdateGroupsFromOutputIds(drivers', groups, changed)
        /\ ncommit' = nlog + 1
        /\ op' = OpRecord(kind, controller_id, matches, changed,
                          FlippedGroups(groups, groups'))
        /\ sent' = << >>
        /\ result' = "none"

\* the tail shared by the event handlers: nlog entries were logged (one
\* commit each); the groups of the changed outputs are recomputed and one
\* more commit is made only when an output changed
CommitEvent(kind, controller_id, matches, nlog) ==
    LET changed == ChangedOutputs(drivers, drivers')
    IN  /\ groups' = UpdateGroupsFromOutputIds(drivers', groups, changed)
        /\ ncommit' = nlog + (IF changed = {} THEN 0 ELSE 1)
        /\ op' = OpRecord(kind, controller_id, matches, changed,
                          FlippedGroups(groups, groups'))
        /\ sent' = << >>
        /\ result' = "none"

\* _process_led_channel_state (manager.py:229-240)
ProcessLedChannelState(controller_id, ev) ==
    LET matches == MatchOutputs(drivers, controller_id, ev.dvr, ev.c, ev.i)
        applied == [oid \in matches |-> ApplyChannelState(OutputOf(oid), ev)]
    IN  /\ logged' = <<LogEntry(controller_id, "rx")>>
        /\ drivers' = MapOutputs(drivers, applied)
        /\ CommitEvent("channel_state", controller_id, matches, 1)
        /\ UNCHANGED <<helpers, pwmVars, serviceVars, switchVars, buttonVars, linkVars>>

\* _process_led_fault (manager.py:242-258)
ProcessLedFault(controller_id, ev, is_fault) ==
    LET matches == MatchOutputs(drivers, controller_id, ev.dvr, ev.c, ev.i)
        applied == [oid \in matches |-> ApplyFault(OutputOf(oid), is_fault)]
    IN  /\ logged' = <<LogEntry(controller_id, "rx")>>
        /\ drivers' = MapOutputs(drivers, applied)
        /\ CommitEvent(IF is_fault THEN "fault" ELSE "fault_cleared",
                       controller_id, matches, 1)
        /\ UNCHANGED <<helpers, pwmVars, serviceVars, switchVars, buttonVars, linkVars>>

OnLedChannelState == \E ev \in ChannelEvents : ProcessLedChannelState("c1", ev)

OnLedFault == \E ev \in FaultEvents : ProcessLedFault("c1", ev, TRUE)

OnLedFaultCleared == \E ev \in FaultEvents : ProcessLedFault("c1", ev, FALSE)

Next ==
    \/ OnLedChannelState
    \/ OnLedFault
    \/ OnLedFaultCleared

Spec == Init /\ [][Next]_vars

-----------------------------------------------------------------------------
(* Registry: channel and PWM maps of a group (registry.py:850-974) *)

\* sorted(S) for a set of integers
RECURSIVE SortedSeq(_)
SortedSeq(S) ==
    IF S = {} THEN << >>
    ELSE LET m == CHOOSE x \in S : \A y \in S : x <= y
         IN  <<m>> \o SortedSeq(S \ {m})

\* the elements of q in order of first appearance (dict insertion order)
RECURSIVE Dedup(_)
Dedup(q) ==
    IF q = << >> THEN << >>
    ELSE LET r == Dedup(SubSeq(q, 1, Len(q) - 1))
         IN  IF q[Len(q)] \in SeqToSet(r) THEN r ELSE Append(r, q[Len(q)])

RECURSIVE ConcatAll(_)
ConcatAll(qs) == IF qs = << >> THEN << >> ELSE Head(qs) \o ConcatAll(Tail(qs))

\* the member outputs of g that a map takes in, in led_ids order
\* (registry.py:865-869 and 929-933)
IncludedOutputs(drv, g, include_disabled, include_faulty) ==
    LET Keep(oid) ==
            /\ oid[1] \in DOMAIN drv
            /\ (include_disabled \/ ~drv[oid[1]].outputs[oid[2]].disabled)
            /\ (include_faulty \/ ~drv[oid[1]].outputs[oid[2]].faulty)
    IN  SelectSeq(g.led_ids, Keep)

\* build_group_channel_map: per controller, in order of first appearance,
\* the sorted channels of each driver index
BuildGroupChannelMap(drv, g, include_disabled, include_faulty) ==
    LET inc == IncludedOutputs(drv, g, include_disabled, include_faulty)
        Ctrl(i) == drv[inc[i][1]].controller_id
        Index(i) == drv[inc[i][1]].driver_index
        ctrls == Dedup([i \in 1..Len(inc) |-> Ctrl(i)])
        Members(c, idx) == {i \in 1..Len(inc) : Ctrl(i) = c /\ Index(i) = idx}
    IN  [k \in 1..Len(ctrls) |->
            [controller_id |-> ctrls[k],
             drivers |->
                [idx \in {Index(i) : i \in {j \in 1..Len(inc) : Ctrl(j) = ctrls[k]}} |->
                    SortedSeq(UNION {OutputChannels(drv[inc[i][1]].outputs[inc[i][2]]) :
                                        i \in Members(ctrls[k], idx)})]]]

\* registry.py:953-963: the PWM value of one output at a brightness
OutputPwmAt(o, brightness_value) ==
    PwmForBrightness(o.min_pwm, Max(o.min_pwm, o.max_pwm), brightness_value)

\* the 4-slot array of driver idx of controller c: a slot takes the value of
\* the last included output that addresses it and is -1 when none does
PwmSlots(drv, inc, brightness_value, c, idx) ==
    LET Writers(s) ==
            {i \in 1..Len(inc) :
                /\ drv[inc[i][1]].controller_id = c
                /\ drv[inc[i][1]].driver_index = idx
                /\ s \in OutputChannels(drv[inc[i][1]].outputs[inc[i][2]])}
        Last(S) == inc[CHOOSE i \in S : \A j \in S : j <= i]
    IN  [s \in Slots |->
            IF Writers(s) = {} THEN -1
            ELSE OutputPwmAt(drv[Last(Writers(s))[1]].outputs[Last(Writers(s))[2]],
                             brightness_value)]

\* build_group_pwm_map: per controller, in order of first appearance, the
\* 4-slot array of each driver index
BuildGroupPwmMap(drv, g, include_disabled, include_faulty, brightness) ==
    LET inc == IncludedOutputs(drv, g, include_disabled, include_faulty)
        brightness_value ==
            Max(0, Min(100, IF brightness # None THEN brightness[1] ELSE g.brightness))
        Ctrl(i) == drv[inc[i][1]].controller_id
        ctrls == Dedup([i \in 1..Len(inc) |-> Ctrl(i)])
    IN  [k \in 1..Len(ctrls) |->
            [controller_id |-> ctrls[k],
             drivers |->
                [idx \in {drv[inc[i][1]].driver_index :
                             i \in {j \in 1..Len(inc) : Ctrl(j) = ctrls[k]}} |->
                    PwmSlots(drv, inc, brightness_value, ctrls[k], idx)]]]

-----------------------------------------------------------------------------
(* Manager: outbound commands (manager.py:288-601, 1319-1414) *)

\* the "led" message of one controller of a channel or PWM map
\* (manager.py:308-315 and 338-348)
GroupMessage(entry, action) ==
    LET idxs == SortedSeq(DOMAIN entry.drivers)
    IN  [ctrl |-> entry.controller_id, cm |-> "led", a |-> action,
         drvs |-> [k \in 1..Len(idxs) |-> [drv |-> idxs[k], cs |-> entry.drivers[idxs[k]]]]]

\* how many of the controllers ctrls[1], ctrls[2], ... a sending loop gets
\* through before it meets one that is not in _serial_helpers and raises
TrackedPrefix(ctrls) ==
    LET bad == {i \in 1..Len(ctrls) : helpers[ctrls[i]] = "absent"}
    IN  IF bad = {} THEN Len(ctrls)
        ELSE (CHOOSE i \in bad : \A j \in bad : i <= j) - 1

TxLog(msgs) == [i \in 1..Len(msgs) |-> LogEntry(msgs[i].ctrl, "tx")]

\* a group action whose "off" leaves the faulted outputs out
GroupActionOutcomeHealthy(group_id, action) ==
    LET map == BuildGroupChannelMap(drivers, groups[group_id], FALSE, FALSE)
        n == TrackedPrefix([i \in 1..Len(map) |-> map[i].controller_id])
    IN  [sent |-> [i \in 1..n |-> GroupMessage(map[i], action)],
         result |-> IF Len(map) > 0 /\ n = Len(map) THEN "queued" ELSE "error"]

\* what async_apply_group_action sends before it returns or raises, and
\* whether it returns
GroupActionOutcome(group_id, action) ==
    LET known == group_id \in DOMAIN groups
        map == IF ~known THEN << >>
               ELSE IF action = "off"
               THEN BuildGroupChannelMap(drivers, groups[group_id], FALSE, TRUE)
               ELSE BuildGroupPwmMap(drivers, groups[group_id], TRUE, TRUE,
                                     Some(groups[group_id].brightness))
        n == TrackedPrefix([i \in 1..Len(map) |-> map[i].controller_id])
    IN  [sent |-> [i \in 1..n |-> GroupMessage(map[i], action)],
         result |-> IF Len(map) > 0 /\ n = Len(map) THEN "queued" ELSE "error"]

\* the history of a group action: every message sent was logged first, with
\* one commit each
GroupActionEffects(group_id, action) ==
    LET outcome == GroupActionOutcome(group_id, action)
    IN  /\ sent' = outcome.sent
        /\ logged' = TxLog(sent')
        /\ ncommit' = Len(sent')
        /\ result' = outcome.result

\* async_apply_group_action (manager.py:288-358)
AsyncApplyGroupAction(group_id, action) ==
    /\ GroupActionEffects(group_id, action)
    /\ op' = OpRecord(IF action = "off" THEN "group_off" ELSE "group_on",
                      group_id, {}, {}, {})
    /\ UNCHANGED <<coreVars, pwmVars, serviceVars, switchVars, buttonVars, linkVars>>

\* one assignment updates[controller][driver][channel] = pwm for each
\* channel of the output
ChannelUpdates(drv, oid, pwm_value) ==
    LET chans == SortedSeq(OutputChannels(drv[oid[1]].outputs[oid[2]]))
    IN  [k \in 1..Len(chans) |->
            [ctrl |-> drv[oid[1]].controller_id, drv |-> drv[oid[1]].driver_index,
             ch |-> chans[k], pwm |-> pwm_value]]

\* the updates dict after the assignments of q, made in order: a key that
\* is assigned again keeps its place and takes the later value
RECURSIVE MergeUpdates(_)
MergeUpdates(q) ==
    IF q = << >> THEN << >>
    ELSE LET r == MergeUpdates(SubSeq(q, 1, Len(q) - 1))
             u == q[Len(q)]
             Same(v) == v.ctrl = u.ctrl /\ v.drv = u.drv /\ v.ch = u.ch
         IN  IF \E i \in 1..Len(r) : Same(r[i])
             THEN [i \in 1..Len(r) |-> IF Same(r[i]) THEN u ELSE r[i]]
             ELSE Append(r, u)

\* the entries of q grouped by driver, drivers in the order given
RECURSIVE ByDriver(_, _)
ByDriver(order, q) ==
    IF order = << >> THEN << >>
    ELSE SelectSeq(q, LAMBDA u : u.drv = Head(order)) \o ByDriver(Tail(order), q)

\* the "pwm" messages of one controller: one per distinct PWM value, in
\* order of first appearance (manager.py:1377-1397)
PwmMessagesFor(c, updates) ==
    LET mine == SelectSeq(updates, LAMBDA u : u.ctrl = c)
        walk == ByDriver(Dedup([i \in 1..Len(mine) |-> mine[i].drv]), mine)
        pwms == Dedup([i \in 1..Len(walk) |-> walk[i].pwm])
        With(p) == {i \in 1..Len(walk) : walk[i].pwm = p}
        Message(p) ==
            LET ds == SortedSeq({walk[i].drv : i \in With(p)})
            IN  [ctrl |-> c, cm |-> "led", a |-> "pwm",
                 drvs |-> [j \in 1..Len(ds) |->
                             [dvr |-> ds[j],
                              cs |-> SortedSeq({walk[i].ch :
                                         i \in {n \in With(p) : walk[n].drv = ds[j]}})]],
                 pwm |-> p]
    IN  [k \in 1..Len(pwms) |-> Message(pwms[k])]

\* a dispatch that is strict whatever its caller asks for
DispatchPwmUpdatesStrict(assignments, strict) ==
    LET updates == MergeUpdates(assignments)
        ctrls == Dedup([i \in 1..Len(updates) |-> updates[i].ctrl])
        bad == {k \in 1..Len(ctrls) : helpers[ctrls[k]] = "absent"}
        stop == IF bad # {} THEN (CHOOSE k \in bad : \A j \in bad : k <= j) - 1
                ELSE Len(ctrls)
    IN  [sent |-> ConcatAll([k \in 1..stop |-> PwmMessagesFor(ctrls[k], updates)]),
         raised |-> bad # {}]

\* _dispatch_pwm_updates: the messages sent, and whether LedDriverError is
\* raised; a controller that is not in _serial_helpers stops a strict
\* dispatch and is skipped by an ambient one
DispatchPwmUpdates(assignments, strict) ==
    LET updates == MergeUpdates(assignments)
        ctrls == Dedup([i \in 1..Len(updates) |-> updates[i].ctrl])
        bad == {k \in 1..Len(ctrls) : helpers[ctrls[k]] = "absent"}
        stop == IF strict /\ bad # {}
                THEN (CHOOSE k \in bad : \A j \in bad : k <= j) - 1
                ELSE Len(ctrls)
    IN  [sent |-> ConcatAll([k \in 1..stop |->
                     IF helpers[ctrls[k]] = "absent" THEN << >>
                     ELSE PwmMessagesFor(ctrls[k], updates)]),
         raised |-> strict /\ bad # {}]

\* a target taken as it comes
Unclamped(lo, hi, v) == v

Clamp(lo, hi, v) == Max(lo, Min(Max(lo, hi), v))

\* the history of a command that changed the outputs in changed
CommandDone(kind, target, msgs, ncommits, outcome, changed) ==
    /\ sent' = msgs
    /\ logged' = TxLog(msgs)
    /\ ncommit' = ncommits
    /\ result' = outcome
    /\ op' = OpRecord(kind, target, {}, changed, FlippedGroups(groups, groups'))

\* async_set_output_pwm (manager.py:460-512)
AsyncSetOutputPwm(oid, pwm) ==
    LET known == OutputExists(oid)
        o == OutputOf(oid)
        pwm_value == Clamp(o.min_pwm, o.max_pwm, pwm)
        d == DispatchPwmUpdates(ChannelUpdates(drivers, oid, pwm_value), TRUE)
        new == [o EXCEPT !.pwm = pwm_value,
                         !.level = IF pwm_value > o.min_pwm THEN 1 ELSE 0]
    IN  /\ IF known /\ ~d.raised
           THEN /\ drivers' = [drivers EXCEPT ![oid[1]].outputs[oid[2]] = new]
                /\ groups' = UpdateGroupsFromOutputIds(drivers', groups, {oid})
                /\ CommandDone("set_pwm", oid, d.sent, Len(d.sent) + 1, "queued",
                               ChangedOutputs(drivers, drivers'))
           ELSE /\ UNCHANGED <<drivers, groups>>
                /\ CommandDone("set_pwm", oid, IF known THEN d.sent ELSE << >>,
                               IF known THEN Len(d.sent) ELSE 0, "error", {})
        /\ UNCHANGED <<helpers, pwmVars, serviceVars, switchVars, buttonVars, linkVars>>

\* async_set_output_state (manager.py:514-601): the message is logged
\* before JsonHelper.async_send finds the controller has no helper
AsyncSetOutputState(oid, turn_on) ==
    LET known == OutputExists(oid)
        o == OutputOf(oid)
        c == drivers[oid[1]].controller_id
        target_pwm == Clamp(o.min_pwm, o.max_pwm, o.target_pwm)
        message ==
            IF turn_on
            THEN [ctrl |-> c, cm |-> "led", a |-> "on",
                  drvs |-> <<[drv |-> drivers[oid[1]].driver_index,
                              cs |-> [s \in Slots |-> IF s \in OutputChannels(o)
                                                      THEN target_pwm ELSE -1]]>>]
            ELSE [ctrl |-> c, cm |-> "led", a |-> "off",
                  drvs |-> <<[drv |-> drivers[oid[1]].driver_index,
                              cs |-> SortedSeq(OutputChannels(o))]>>]
        pwm_value == IF turn_on THEN target_pwm ELSE 0
        new == [o EXCEPT !.pwm = pwm_value,
                         !.level = IF turn_on /\ pwm_value > o.min_pwm THEN 1 ELSE 0]
    IN  /\ IF known /\ helpers[c] # "absent"
           THEN /\ drivers' = [drivers EXCEPT ![oid[1]].outputs[oid[2]] = new]
                /\ groups' = UpdateGroupsFromOutputIds(drivers', groups, {oid})
                /\ CommandDone("set_state", oid, <<message>>, 2, "queued",
                               ChangedOutputs(drivers, drivers'))
           ELSE /\ UNCHANGED <<drivers, groups>>
                /\ sent' = << >>
                /\ logged' = IF known THEN <<LogEntry(c, "tx")>> ELSE << >>
                /\ ncommit' = Len(logged')
                /\ result' = "error"
                /\ op' = OpRecord("set_state", oid, {}, {}, {})
        /\ UNCHANGED <<helpers, pwmVars, serviceVars, switchVars, buttonVars, linkVars>>

\* a step that starts over from the other bound once a bound is reached
StepOutputWrap(o, direction) ==
    LET step == IF direction >= 0 THEN PWM_STEP_SIZE ELSE -PWM_STEP_SIZE
        target == IF direction >= 0
                  THEN (IF o.pwm >= o.max_pwm THEN o.min_pwm ELSE o.pwm + step)
                  ELSE (IF o.pwm <= o.min_pwm THEN o.max_pwm ELSE o.pwm + step)
    IN  IF o.disabled \/ target = o.pwm THEN o
        ELSE [o EXCEPT !.pwm = target, !.level = IF target > o.min_pwm THEN 1 ELSE 0]

\* one output of _step_group_pwm (manager.py:1332-1348)
StepOutput(o, direction) ==
    LET step == IF direction >= 0 THEN PWM_STEP_SIZE ELSE -PWM_STEP_SIZE
        target == IF direction >= 0 THEN Min(o.pwm + step, o.max_pwm)
                  ELSE Max(o.pwm + step, o.min_pwm)
    IN  IF o.disabled \/ target = o.pwm THEN o
        ELSE [o EXCEPT !.pwm = target, !.level = IF target > o.min_pwm THEN 1 ELSE 0]

\* the outputs of the group after one step of _step_group_pwm
\* (manager.py:1326-1348)
SteppedDrivers(group_id, direction) ==
    MapOutputs(drivers,
               [oid \in SeqToSet(ResolveOutputIds(groups[group_id].led_ids)) |->
                   StepOutput(OutputOf(oid), direction)])

\* _step_group_pwm (manager.py:1319-1360): an ambient dispatch and one
\* commit; the groups are left as they are; an error raised by the dispatch
\* would leave the function before the commit
StepGroupPwm(group_id, direction) ==
    LET ids == ResolveOutputIds(groups[group_id].led_ids)
        new == SteppedDrivers(group_id, direction)
        moved == SelectSeq(ids, LAMBDA oid :
                     new[oid[1]].outputs[oid[2]] # drivers[oid[1]].outputs[oid[2]])
        d == DispatchPwmUpdates(
                 ConcatAll([i \in 1..Len(moved) |->
                     ChannelUpdates(new, moved[i],
                                    new[moved[i][1]].outputs[moved[i][2]].pwm)]),
                 FALSE)
    IN  /\ group_id \in DOMAIN groups
        /\ moved # << >>
        /\ drivers' = new
        /\ groups' = groups
        /\ CommandDone("ramp_step", group_id, d.sent,
                       Len(d.sent) + (IF d.raised THEN 0 ELSE 1),
                       IF d.raised THEN "error" ELSE "ok", SeqToSet(moved))
        /\ UNCHANGED <<helpers, pwmVars, serviceVars, switchVars, buttonVars, linkVars>>

\* async_apply_group_pwm_targets (manager.py:360-458): target_pwm is stored
\* before the strict dispatch, so it stays when the dispatch raises;
\* op.matched holds the outputs that took a target
AsyncApplyGroupPwmTargets(group_id, targets, brightness) ==
    LET known == group_id \in DOMAIN groups /\ DOMAIN targets # {}
        ids == ResolveOutputIds(groups[group_id].led_ids)
        hit == SelectSeq(ids, LAMBDA oid : oid \in DOMAIN targets /\ ~OutputOf(oid).disabled)
        Value(oid) == Clamp(OutputOf(oid).min_pwm, OutputOf(oid).max_pwm, targets[oid])
        stored == [oid \in SeqToSet(hit) |-> [OutputOf(oid) EXCEPT !.target_pwm = Value(oid)]]
        d == DispatchPwmUpdates(
                 ConcatAll([i \in 1..Len(hit) |-> ChannelUpdates(drivers, hit[i], Value(hit[i]))]),
                 TRUE)
        brightness_value == Max(0, Min(100, brightness[1]))
    IN  /\ IF known /\ hit # << >>
           THEN /\ drivers' = MapOutputs(drivers, stored)
                /\ groups' = IF d.raised \/ brightness = None THEN groups
                             ELSE [groups EXCEPT ![group_id].brightness = brightness_value]
                /\ sent' = d.sent
                /\ logged' = TxLog(d.sent)
                /\ ncommit' = Len(d.sent) + (IF d.raised THEN 0 ELSE 1)
                /\ result' = IF d.raised THEN "error" ELSE "queued"
                /\ op' = OpRecord("pwm_targets", group_id, SeqToSet(hit),
                                  ChangedOutputs(drivers, drivers'),
                                  FlippedGroups(groups, groups'))
           ELSE /\ UNCHANGED <<drivers, groups>>
                /\ CommandDone("pwm_targets", group_id, << >>, 0, "error", {})
        /\ UNCHANGED <<helpers, pwmVars, serviceVars, switchVars, buttonVars, linkVars>>

-----------------------------------------------------------------------------
(* Registry: group and driver upserts and deletes (registry.py:749-843, 979-1003) *)

\* the history of a registry call: one commit, nothing sent
RegistryDone(kind, target) ==
    /\ sent' = << >>
    /\ logged' = << >>
    /\ ncommit' = 1
    /\ result' = "ok"
    /\ op' = OpRecord(kind, target, {}, ChangedOutputs(drivers, drivers'),
                      FlippedGroups(groups, groups'))

\* async_upsert_group: the fields of the payload replace the stored ones;
\* is_on is whatever the payload or the stored group says
AsyncUpsertGroup(group_id, payload) ==
    LET stored == IF group_id \in DOMAIN groups THEN groups[group_id]
                  ELSE [led_ids |-> << >>, is_on |-> FALSE, brightness |-> 0]
        new == [f \in DOMAIN stored |->
                   IF f \in DOMAIN payload
                   THEN (IF f = "led_ids" THEN Dedup(payload[f]) ELSE payload[f])
                   ELSE stored[f]]
    IN  /\ groups' = [g \in DOMAIN groups \cup {group_id} |->
                         IF g = group_id THEN new ELSE groups[g]]
        /\ drivers' = drivers
        /\ RegistryDone("upsert_group", group_id)
        /\ UNCHANGED <<helpers, pwmVars, serviceVars, switchVars, buttonVars, linkVars>>

\* async_upsert_driver with a payload [controller_id, driver_index, outputs],
\* outputs being the incoming fields by slot
AsyncUpsertDriver(driver_id, payload) ==
    LET exists == driver_id \in DOMAIN drivers
        Previous(s) == IF exists THEN drivers[driver_id].outputs[s]
                       ELSE DefaultOutput(driver_id, s)
        Incoming(s) == IF s \in DOMAIN payload.outputs THEN payload.outputs[s] ELSE << >>
        new == [controller_id |-> payload.controller_id,
                driver_index |-> payload.driver_index,
                outputs |-> [s \in Slots |-> NormalizeOutput(Incoming(s), Previous(s))]]
    IN  /\ drivers' = [d \in DOMAIN drivers \cup {driver_id} |->
                          IF d = driver_id THEN new ELSE drivers[d]]
        /\ groups' = groups
        /\ RegistryDone("upsert_driver", driver_id)
        /\ UNCHANGED <<helpers, pwmVars, serviceVars, switchVars, buttonVars, linkVars>>

\* async_delete_driver: the driver goes and its outputs leave every group
AsyncDeleteDriver(driver_id) ==
    /\ driver_id \in DOMAIN drivers
    /\ drivers' = [d \in DOMAIN drivers \ {driver_id} |-> drivers[d]]
    /\ groups' = [g \in DOMAIN groups |->
                     [groups[g] EXCEPT !.led_ids =
                         SelectSeq(groups[g].led_ids, LAMBDA oid : oid[1] # driver_id)]]
    /\ RegistryDone("delete_driver", driver_id)
    /\ UNCHANGED <<helpers, pwmVars, serviceVars, switchVars, buttonVars, linkVars>>

-----------------------------------------------------------------------------
(* SpecGroup: events, commands and registry calls together *)

\* d1 with oA and oB dark on c1, d2 with oC dark on c2; g1 holds oA and
\* g2 holds oB and oC
InitGroup ==
    /\ drivers = InitDrivers(ConfiguredOutput("d1", 0, {0}, 1, 2),
                             ConfiguredOutput("d1", 1, {0, 1}, 0, 1),
                             ConfiguredOutput("d2", 0, {0}, 0, 1))
    /\ groups = InitGroups(drivers, [g1 |-> <<oA>>, g2 |-> <<oB, oC>>])
    /\ helpers = AllConnected
    /\ InitHistory
    /\ IdlePwm /\ IdleSwitches /\ IdleButtons /\ IdleLink
    /\ IdleServices

GroupSpecEvents ==
    {[NoField EXCEPT !.dvr = Some(0), !.c = Some(1), !.level = Some(l)] : l \in {0, 1}}

GroupSpecFaults == {[NoField EXCEPT !.dvr = Some(0), !.c = Some(1)]}

GroupPayloads == { [led_ids |-> <<oA, oB>>] }

DriverPayloads ==
    {[controller_id |-> "c1", driver_index |-> 0, outputs |-> [s \in {1} |-> [disabled |-> dis]]] :
        dis \in BOOLEAN}

GroupEvent ==
    \/ \E ev \in GroupSpecEvents : ProcessLedChannelState("c1", ev)
    \/ \E ev \in GroupSpecFaults, is_fault \in BOOLEAN : ProcessLedFault("c1", ev, is_fault)

GroupCommand ==
    \/ \E g \in GroupIds, action \in {"on", "off"} : AsyncApplyGroupAction(g, action)
    \/ AsyncSetOutputPwm(oA, 2)
    \/ \E turn_on \in BOOLEAN : AsyncSetOutputState(oB, turn_on)

RampStep == \E g \in GroupIds, direction \in {1, -1} : StepGroupPwm(g, direction)

UpsertGroup == \E payload \in GroupPayloads : AsyncUpsertGroup("g1", payload)

UpsertDriver == \E payload \in DriverPayloads : AsyncUpsertDriver("d1", payload)

DeleteDriver == AsyncDeleteDriver("d2")

NextGroup ==
    \/ GroupEvent
    \/ GroupCommand
    \/ RampStep
    \/ UpsertGroup
    \/ UpsertDriver
    \/ DeleteDriver

SpecGroup == InitGroup /\ [][NextGroup]_vars

-----------------------------------------------------------------------------
(* SpecDriver: re-upserts of the stored driver d1 among output commands and
   events *)

\* payloads that name no slot, slot 0 only, or slot 1 only
StoredDriverPayloads ==
    {[controller_id |-> "c1", driver_index |-> 0, outputs |-> outs] :
        outs \in {<< >>,
                  [s \in {0} |-> [max_pwm |-> 3]],
                  [s \in {1} |-> [disabled |-> TRUE]],
                  [s \in {1} |-> [disabled |-> FALSE]]}}

NextDriver ==
    \/ \E payload \in StoredDriverPayloads : AsyncUpsertDriver("d1", payload)
    \/ \E oid \in {oA, oB}, pwm \in 0..2 : AsyncSetOutputPwm(oid, pwm)
    \/ \E ev \in GroupSpecEvents : ProcessLedChannelState("c1", ev)
    \/ \E ev \in GroupSpecFaults, is_fault \in BOOLEAN : ProcessLedFault("c1", ev, is_fault)

SpecDriver == InitGroup /\ [][NextDriver]_vars

-----------------------------------------------------------------------------
(* SpecCmd: user commands against controllers that are connected, tracked
   with the link down, or not tracked *)

\* oA lit on d1, oB on d1 enabled or disabled, oC on d2; g1 holds oA and oB,
\* g2 holds oB and oC; c1 is connected or tracked with its link down, c2 is
\* connected or not tracked
InitCmd ==
    /\ \E b \in {ConfiguredOutput("d1", 1, {0, 1}, 0, 1),
                 DisabledState(ConfiguredOutput("d1", 1, {0, 1}, 0, 1))} :
         drivers = InitDrivers([ConfiguredOutput("d1", 0, {0}, 1, 2) EXCEPT !.level = 1, !.pwm = 2],
                               b, ConfiguredOutput("d2", 0, {0}, 0, 1))
    /\ groups = InitGroups(drivers, [g1 |-> <<oA, oB>>, g2 |-> <<oB, oC>>])
    /\ \E h1 \in {"connected", "down"}, h2 \in {"connected", "absent"} :
         helpers = [c \in CtrlIds |-> IF c = "c1" THEN h1 ELSE h2]
    /\ InitHistory
    /\ IdlePwm /\ IdleSwitches /\ IdleButtons /\ IdleLink
    /\ IdleServices

CmdTargets == { [oid \in {oA} |-> 2], [oid \in {oB, oC} |-> 1] }

CmdGroupAction == \E g \in GroupIds, action \in {"on", "off"} : AsyncApplyGroupAction(g, action)

CmdOutputPwm == \E oid \in {oA, oC} : AsyncSetOutputPwm(oid, 1)

CmdOutputState == \E turn_on \in BOOLEAN : AsyncSetOutputState(oB, turn_on)

CmdPwmTargets ==
    \E g \in GroupIds, targets \in CmdTargets, brightness \in {None, Some(29)} :
        AsyncApplyGroupPwmTargets(g, targets, brightness)

NextCmd ==
    \/ CmdGroupAction
    \/ CmdOutputPwm
    \/ CmdOutputState
    \/ CmdPwmTargets

SpecCmd == InitCmd /\ [][NextCmd]_vars

-----------------------------------------------------------------------------
(* SpecTargets: async_apply_group_pwm_targets on g1 = oA, oB (both on driver
   0 of c1) and g2 = oB, oC; oB drives channels 0 and 1, sharing channel 0
   with oA, or channel 1 alone; c2 is connected or not tracked *)

InitTargets ==
    /\ \E chans \in {{0, 1}, {1}} :
         drivers = InitDrivers(ConfiguredOutput("d1", 0, {0}, 1, 2),
                               ConfiguredOutput("d1", 1, chans, 0, 1),
                               ConfiguredOutput("d2", 0, {0}, 0, 1))
    /\ groups = InitGroups(drivers, [g1 |-> <<oA, oB>>, g2 |-> <<oB, oC>>])
    /\ \E h2 \in {"connected", "absent"} :
         helpers = [c \in CtrlIds |-> IF c = "c1" THEN "connected" ELSE h2]
    /\ InitHistory
    /\ IdlePwm /\ IdleSwitches /\ IdleButtons /\ IdleLink
    /\ IdleServices

\* targets inside and outside the ranges of oA (1..2), oB and oC (0..1)
TargetChoices ==
    UNION {[S -> 0..3] : S \in {{oA, oB}, {oB, oC}, {oA}}}

TargetsCall ==
    \E g \in GroupIds, targets \in TargetChoices :
        AsyncApplyGroupPwmTargets(g, targets, None)

NextTargets == TargetsCall

SpecTargets == InitTargets /\ [][NextTargets]_vars

-----------------------------------------------------------------------------
(* SpecOff: groups turned off while each of oA, oB and oC is in order,
   faulted (a led.fault event was applied) or disabled (by a driver upsert);
   oA and oB are on driver 0 of c1 and share channel 0, oC is on c2, which
   is connected or not tracked *)

\* an output as configured, faulted, or disabled
OutputConditions(base) ==
    {base, [base EXCEPT !.faulty = TRUE], DisabledState(base)}

InitOff ==
    /\ \E a \in OutputConditions(ConfiguredOutput("d1", 0, {0}, 1, 2)),
          b \in OutputConditions(ConfiguredOutput("d1", 1, {0, 1}, 0, 1)),
          c \in OutputConditions(ConfiguredOutput("d2", 0, {0}, 0, 1)) :
         drivers = InitDrivers(a, b, c)
    /\ groups = InitGroups(drivers, [g1 |-> <<oA, oB>>, g2 |-> <<oB, oC>>])
    /\ \E h2 \in {"connected", "absent"} :
         helpers = [c \in CtrlIds |-> IF c = "c1" THEN "connected" ELSE h2]
    /\ InitHistory
    /\ IdlePwm /\ IdleSwitches /\ IdleButtons /\ IdleLink
    /\ IdleServices

OffCall == \E g \in GroupIds : AsyncApplyGroupAction(g, "off")

NextOff == OffCall

SpecOff == InitOff /\ [][NextOff]_vars

-----------------------------------------------------------------------------
(* SpecStep: ramp steps on g1 = oA, oB (driver 0 of c1) and g2 = oC, oA
   (oC on c2, which is connected or not tracked), among "off" commands for
   single outputs; oA has the range 2..3 *)

InitStep ==
    /\ drivers = InitDrivers(ConfiguredOutput("d1", 0, {0}, 2, 3),
                             ConfiguredOutput("d1", 1, {1}, 0, 1),
                             ConfiguredOutput("d2", 0, {0}, 0, 1))
    /\ groups = InitGroups(drivers, [g1 |-> <<oA, oB>>, g2 |-> <<oC, oA>>])
    /\ \E h2 \in {"connected", "absent"} :
         helpers = [c \in CtrlIds |-> IF c = "c1" THEN "connected" ELSE h2]
    /\ InitHistory
    /\ IdlePwm /\ IdleSwitches /\ IdleButtons /\ IdleLink
    /\ IdleServices

StepCall == \E g \in GroupIds, direction \in {1, -1} : StepGroupPwm(g, direction)

StepOutputOff == \E oid \in {oA, oB, oC} : AsyncSetOutputState(oid, FALSE)

NextStep ==
    \/ StepCall
    \/ StepOutputOff

SpecStep == InitStep /\ [][NextStep]_vars

-----------------------------------------------------------------------------
(* SpecPwm: build_group_pwm_map over output ranges and brightness values *)

PwmRanges == { <<0, 255>>, <<0, 100>>, <<10, 200>> }

Brightnesses == 0..100

\* g1 holds oA (channel 0, any of the ranges) and oB (channels 1 and 2,
\* range 10..200, enabled or disabled); the group's brightness is any
\* percentage
InitPwm ==
    /\ \E r \in PwmRanges, bright \in Brightnesses,
          b \in {ConfiguredOutput("d1", 1, {1, 2}, 10, 200),
                 DisabledState(ConfiguredOutput("d1", 1, {1, 2}, 10, 200))} :
         /\ drivers = InitDrivers(ConfiguredOutput("d1", 0, {0}, r[1], r[2]), b,
                                  ConfiguredOutput("d2", 0, {0}, 0, 255))
         /\ groups = [g \in GroupIds |->
                         [led_ids |-> IF g = "g1" THEN <<oA, oB>> ELSE <<oC>>,
                          is_on |-> FALSE, brightness |-> bright]]
    /\ helpers = AllConnected
    /\ InitHistory
    /\ pwmMap = None
    /\ IdleSwitches /\ IdleButtons /\ IdleLink
    /\ IdleServices

\* one call of build_group_pwm_map for group g1, keeping its arguments
BuildPwmMapCall ==
    \E include_disabled \in BOOLEAN :
        /\ pwmMap' = Some([group |-> "g1", include_disabled |-> include_disabled,
                           map |-> BuildGroupPwmMap(drivers, groups["g1"],
                                                    include_disabled, FALSE, None)])
        /\ UNCHANGED <<coreVars, histVars, switchVars, buttonVars, linkVars, serviceVars>>

NextPwm == BuildPwmMapCall

SpecPwm == InitPwm /\ [][NextPwm]_vars

-----------------------------------------------------------------------------
(* Registry: switches and buttons (registry.py:409-562) *)

MaxMask == 4

SwitchIds == {"s1", "s2"}
ButtonIds == {"b1", "b2"}

\* a & b for a, b >= 0
RECURSIVE BitAnd(_, _)
BitAnd(a, b) ==
    IF a = 0 \/ b = 0 THEN 0
    ELSE 2 * BitAnd(a \div 2, b \div 2) + (IF a % 2 = 1 /\ b % 2 = 1 THEN 1 ELSE 0)

\* _normalize_button_count: absent gives the default, otherwise clamped to 1..5
NormalizeButtonCount(value, default) ==
    IF value = None THEN default ELSE Max(1, Min(5, value[1]))

\* _new_id: an id no stored entry has
NewId(pool, used) == CHOOSE id \in pool \ used : TRUE

\* the history of a switch or button call
SwitchCallDone(kind, target, outcome) ==
    /\ op' = OpRecord(kind, target, {}, {}, {})
    /\ result' = outcome
    /\ ncommit' = IF outcome = "ok" THEN 1 ELSE 0
    /\ logged' = << >>
    /\ sent' = << >>
    /\ UNCHANGED <<coreVars, pwmVars, serviceVars, buttonVars, linkVars>>

\* async_upsert_switch with a payload [id, switch, button_count]: the child
\* buttons take the switch's hardware value
AsyncUpsertSwitch(payload) ==
    LET switch_id == IF payload.id # None THEN payload.id[1]
                     ELSE NewId(SwitchIds, DOMAIN switches)
        exists == switch_id \in DOMAIN switches
        created == [switch |-> IF payload.switch # None THEN payload.switch[1] ELSE 0,
                    button_count |-> NormalizeButtonCount(payload.button_count, 5)]
        stored == IF exists THEN switches[switch_id] ELSE created
        new == [switch |-> IF payload.switch # None THEN payload.switch[1] ELSE stored.switch,
                button_count |-> NormalizeButtonCount(payload.button_count, stored.button_count)]
    IN  /\ payload.id = None => SwitchIds \ DOMAIN switches # {}
        /\ switches' = [s \in DOMAIN switches \cup {switch_id} |->
                           IF s = switch_id THEN new ELSE switches[s]]
        /\ buttons' = [b \in DOMAIN buttons |->
                          IF buttons[b].switch_id = switch_id
                          THEN [buttons[b] EXCEPT !.switch = new.switch]
                          ELSE buttons[b]]
        /\ ssr' = ssr
        /\ learned' = learned
        /\ SwitchCallDone("upsert_switch", switch_id, "ok")

\* async_delete_switch: the switch goes with its buttons; an unknown id is
\* ignored without a commit
AsyncDeleteSwitch(switch_id) ==
    /\ IF switch_id \in DOMAIN switches
       THEN /\ switches' = [s \in DOMAIN switches \ {switch_id} |-> switches[s]]
            /\ buttons' = [b \in {x \in DOMAIN buttons : buttons[x].switch_id # switch_id} |->
                              buttons[b]]
       ELSE UNCHANGED <<switches, buttons>>
    /\ ssr' = ssr
    /\ learned' = IF switch_id \in DOMAIN switches
                  THEN learned \ {<<switches[switch_id].switch, buttons[b].mask>> :
                                     b \in {x \in DOMAIN buttons : buttons[x].switch_id = switch_id}}
                  ELSE learned
    /\ SwitchCallDone("delete_switch", switch_id,
                      IF switch_id \in DOMAIN switches THEN "ok" ELSE "ignored")

\* the parents async_upsert_button can find for a payload: the switch named
\* by switch_id, else the first stored switch whose hardware value is the
\* payload's switch (which one is first depends on the order of insertion)
ButtonParents(payload) ==
    IF payload.switch_id # None /\ payload.switch_id[1] \in DOMAIN switches
    THEN {Some(payload.switch_id[1])}
    ELSE IF payload.switch = None THEN {None}
    ELSE LET found == {s \in DOMAIN switches : switches[s].switch = payload.switch[1]}
         IN  IF found = {} THEN {None} ELSE {Some(s) : s \in found}

\* a validation that leaves out the sibling-mask check
ButtonRejectedUnlessMask(payload, parent, button_id) ==
    \/ parent = None
    \/ payload.mask <= 0
    \/ BitAnd(payload.mask, payload.mask - 1) # 0
    \/ /\ button_id \notin DOMAIN buttons
       /\ Cardinality({b \in DOMAIN buttons :
                          buttons[b].switch_id = parent[1] /\ b # button_id})
              >= switches[parent[1]].button_count

\* the ValueError cases of async_upsert_button (registry.py:497-517)
ButtonRejected(payload, parent, button_id) ==
    \/ parent = None
    \/ payload.mask <= 0
    \/ BitAnd(payload.mask, payload.mask - 1) # 0
    \/ LET siblings == {b \in DOMAIN buttons :
                           buttons[b].switch_id = parent[1] /\ b # button_id}
       IN  \/ \E b \in siblings : buttons[b].mask = payload.mask
           \/ button_id \notin DOMAIN buttons
                 /\ Cardinality(siblings) >= switches[parent[1]].button_count

\* async_upsert_button with a payload [id, switch_id, switch, mask, group_id]
AsyncUpsertButton(payload, parent) ==
    LET button_id == IF payload.id # None THEN payload.id[1]
                     ELSE NewId(ButtonIds, DOMAIN buttons)
        stored == [switch_id |-> parent[1], switch |-> switches[parent[1]].switch,
                   mask |-> payload.mask,
                   group_id |-> IF payload.group_id # None \/ button_id \notin DOMAIN buttons
                                THEN payload.group_id
                                ELSE buttons[button_id].group_id]
    IN  /\ parent \in ButtonParents(payload)
        /\ payload.id = None => ButtonIds \ DOMAIN buttons # {}
        /\ ssr' = ssr
        /\ learned' = IF ButtonRejected(payload, parent, button_id) THEN learned
                      ELSE learned \ {<<stored.switch, stored.mask>>}
        /\ IF ButtonRejected(payload, parent, button_id)
           THEN /\ UNCHANGED <<switches, buttons>>
                /\ SwitchCallDone("upsert_button", button_id, "error")
           ELSE /\ buttons' = [b \in DOMAIN buttons \cup {button_id} |->
                                  IF b = button_id THEN stored ELSE buttons[b]]
                /\ switches' = switches
                /\ SwitchCallDone("upsert_button", button_id, "ok")

\* async_delete_button: an unknown id is ignored without a commit
AsyncDeleteButton(button_id) ==
    /\ buttons' = [b \in DOMAIN buttons \ {button_id} |-> buttons[b]]
    /\ switches' = switches
    /\ ssr' = ssr
    /\ learned' = IF button_id \in DOMAIN buttons
                  THEN learned \ {<<buttons[button_id].switch, buttons[button_id].mask>>}
                  ELSE learned
    /\ SwitchCallDone("delete_button", button_id,
                      IF button_id \in DOMAIN buttons THEN "ok" ELSE "ignored")

-----------------------------------------------------------------------------
(* SpecSwitch: switch and button upserts and deletes *)

InitSwitch ==
    /\ drivers = InitDrivers(ConfiguredOutput("d1", 0, {0}, 1, 2),
                             ConfiguredOutput("d1", 1, {0, 1}, 0, 1),
                             ConfiguredOutput("d2", 0, {0}, 0, 1))
    /\ groups = InitGroups(drivers, [g1 |-> <<oA>>, g2 |-> <<oB, oC>>])
    /\ helpers = AllConnected
    /\ InitHistory
    /\ IdlePwm /\ IdleSwitches /\ IdleButtons /\ IdleLink
    /\ IdleServices

SwitchPayloads ==
    {[id |-> i, switch |-> v, button_count |-> n] :
        i \in {None} \cup {Some(s) : s \in SwitchIds},
        v \in {None, Some(1), Some(2)}, n \in {None, Some(1)}}

ButtonPayloads ==
    {[id |-> i, switch_id |-> s, switch |-> v, mask |-> m, group_id |-> Some("g1")] :
        i \in {None} \cup {Some(b) : b \in ButtonIds},
        s \in {None} \cup {Some(x) : x \in SwitchIds},
        v \in {None, Some(2)}, m \in 0..MaxMask}

UpsertSwitch == \E payload \in SwitchPayloads : AsyncUpsertSwitch(payload)

DeleteSwitch == \E s \in SwitchIds : AsyncDeleteSwitch(s)

UpsertButton ==
    \E payload \in ButtonPayloads, parent \in {None} \cup {Some(s) : s \in SwitchIds} :
        AsyncUpsertButton(payload, parent)

DeleteButton == \E b \in ButtonIds : AsyncDeleteButton(b)

NextSwitch ==
    \/ UpsertSwitch
    \/ DeleteSwitch
    \/ UpsertButton
    \/ DeleteButton

SpecSwitch == InitSwitch /\ [][NextSwitch]_vars

-----------------------------------------------------------------------------
(* Registry: SSR entries (registry.py:105-112, 1079-1127) *)

SSR_MAX_ENTRIES == 10
SSR_MAX_BITS == 10

\* one id more than the registry can hold
SsrOrder == <<"e0", "e1", "e2", "e3", "e4", "e5", "e6", "e7", "e8", "e9", "e10">>

SsrIds == {SsrOrder[i] : i \in 1..(SSR_MAX_ENTRIES + 1)}

\* _validate_ssr_bit raises for a value that is no integer or is outside
\* 0..SSR_MAX_BITS-1
SsrBitInvalid(value) ==
    value = None \/ value[1] < 0 \/ value[1] >= SSR_MAX_BITS

\* the ValueError cases of async_upsert_ssr_entry (registry.py:1084-1096)
SsrRejected(payload, entry_id) ==
    \/ entry_id \notin DOMAIN ssr.entries /\ Cardinality(DOMAIN ssr.entries) >= SSR_MAX_ENTRIES
    \/ SsrBitInvalid(payload.bit_index)
    \/ \E e \in DOMAIN ssr.entries \ {entry_id} : ssr.entries[e].bit_index = payload.bit_index[1]

\* async_upsert_ssr_entry with a payload [id, bit_index]
AsyncUpsertSsrEntry(payload) ==
    LET entry_id == IF payload.id # None THEN payload.id[1]
                    ELSE NewId(SsrIds, DOMAIN ssr.entries)
    IN  /\ IF SsrRejected(payload, entry_id)
           THEN /\ ssr' = ssr
                /\ SwitchCallDone("upsert_ssr_entry", entry_id, "error")
           ELSE /\ ssr' = [ssr EXCEPT !.entries = [e \in DOMAIN ssr.entries \cup {entry_id} |->
                              IF e = entry_id
                              THEN [bit_index |-> payload.bit_index[1],
                                    is_on |-> IF e \in DOMAIN ssr.entries
                                              THEN ssr.entries[e].is_on ELSE FALSE]
                              ELSE ssr.entries[e]]]
                /\ SwitchCallDone("upsert_ssr_entry", entry_id, "ok")
        /\ UNCHANGED <<switches, buttons, learned>>

\* async_delete_ssr_entry: an unknown id is ignored without a commit
AsyncDeleteSsrEntry(entry_id) ==
    /\ ssr' = [ssr EXCEPT !.entries = [e \in DOMAIN ssr.entries \ {entry_id} |-> ssr.entries[e]]]
    /\ SwitchCallDone("delete_ssr_entry", entry_id,
                      IF entry_id \in DOMAIN ssr.entries THEN "ok" ELSE "ignored")
    /\ UNCHANGED <<switches, buttons, learned>>

-----------------------------------------------------------------------------
(* SpecRegistry: switch, button and SSR upserts and deletes on a registry
   that already holds nine SSR entries *)

InitRegistryCalls ==
    /\ drivers = InitDrivers(ConfiguredOutput("d1", 0, {0}, 1, 2),
                             ConfiguredOutput("d1", 1, {0, 1}, 0, 1),
                             ConfiguredOutput("d2", 0, {0}, 0, 1))
    /\ groups = InitGroups(drivers, [g1 |-> <<oA>>, g2 |-> <<oB, oC>>])
    /\ helpers = AllConnected
    /\ InitHistory
    /\ switches = << >>
    /\ buttons = << >>
    /\ learned = {}
    /\ ssr = [base_address |-> 0,
              entries |-> [e \in {SsrOrder[i] : i \in 1..(SSR_MAX_ENTRIES - 1)} |->
                 [bit_index |-> (CHOOSE i \in 1..SSR_MAX_ENTRIES : SsrOrder[i] = e) - 1,
                  is_on |-> FALSE]]]
    /\ IdlePwm /\ IdleButtons /\ IdleLink
    /\ IdleServices

SsrPayloads ==
    {[id |-> i, bit_index |-> n] :
        i \in {None, Some("e0")},
        n \in {Some(-1), Some(0), Some(SSR_MAX_BITS - 1), Some(SSR_MAX_BITS)}}

UpsertSsrEntry == \E payload \in SsrPayloads : AsyncUpsertSsrEntry(payload)

DeleteSsrEntry == \E e \in {"e9", "e10"} : AsyncDeleteSsrEntry(e)

NextRegistry ==
    \/ UpsertSwitch
    \/ DeleteSwitch
    \/ UpsertButton
    \/ DeleteButton
    \/ UpsertSsrEntry
    \/ DeleteSsrEntry

SpecRegistry == InitRegistryCalls /\ [][NextRegistry]_vars

-----------------------------------------------------------------------------
(* Manager: switch buttons (manager.py:913-965, 987-1040, 1236-1360).
   Times are in tenths of a second; monotonic() is positive, so a
   last_release of 0 is a button that was never released. *)

SWITCH_DOUBLE_PRESS_WINDOW == 5
SWITCH_HOLD_THRESHOLD == 4

MaxNow == 7

\* a fresh _ButtonState; last_press is written and never read, and is left
\* out.  ramp is the state of the task ramp_task refers to ("none" when
\* ramp_task is None).  The ramp tasks of the button that ramp_task does not
\* refer to are counted: cancelled are the started tasks whose cancel() has
\* been called and whose CancelledError is still to be delivered, orphans
\* the tasks that nothing has cancelled.
NewButtonState(group_id) ==
    [group_id |-> group_id, direction |-> 1, last_release |-> 0, pressed |-> FALSE,
     hold_started |-> 0, ramp |-> "none", cancelled |-> 0, orphans |-> 0]

\* _sync_buttons: one state per (switch, mask) of the registry's buttons; a
\* state that exists is kept and takes the button's group
SyncButtons(states) ==
    LET usable == {b \in DOMAIN buttons : buttons[b].mask > 0}
        Key(b) == <<buttons[b].switch, buttons[b].mask>>
        Of(k) == CHOOSE b \in usable : Key(b) = k
    IN  [k \in {Key(b) : b \in usable} |->
            IF k \in DOMAIN states
            THEN [states[k] EXCEPT !.group_id = buttons[Of(k)].group_id]
            ELSE NewButtonState(buttons[Of(k)].group_id)]

\* a press that is a double press only strictly inside the window
IsDoublePressStrict(st) ==
    st.last_release # 0 /\ (now - st.last_release) < SWITCH_DOUBLE_PRESS_WINDOW

\* _handle_button_press: a double press reverses the direction, any other
\* press of a bound button toggles its group
IsDoublePress(st) ==
    st.last_release # 0 /\ (now - st.last_release) <= SWITCH_DOUBLE_PRESS_WINDOW

HandleButtonPress(st) ==
    [st EXCEPT !.pressed = TRUE, !.hold_started = now,
               !.direction = IF IsDoublePress(st) THEN -st.direction ELSE st.direction]

\* _toggle_group: what the press of st sends; LedDriverError is swallowed
ToggleGroup(st) ==
    IF IsDoublePress(st) \/ st.group_id = None \/ st.group_id[1] \notin DOMAIN groups
    THEN << >>
    ELSE GroupActionOutcome(st.group_id[1],
                            IF groups[st.group_id[1]].is_on THEN "off" ELSE "on").sent

\* a release that empties ramp_task and leaves the task running
HandleButtonReleaseKeepsTask(st) ==
    [st EXCEPT !.pressed = FALSE, !.last_release = now, !.hold_started = 0,
               !.ramp = "none",
               !.orphans = IF st.ramp # "none" THEN @ + 1 ELSE @]

\* _handle_button_release: the ramp task is cancelled and ramp_task
\* emptied; a task that never ran is gone with that, a task that is
\* suspended at an await is still to get its CancelledError
HandleButtonRelease(st) ==
    [st EXCEPT !.pressed = FALSE, !.last_release = now, !.hold_started = 0,
               !.ramp = "none",
               !.cancelled = IF st.ramp = "running" THEN @ + 1 ELSE @]

\* _handle_button_hold: a ramp task is created once the button has been held
\* for the threshold
HandleButtonHold(st) ==
    IF st.group_id = None \/ st.ramp # "none"
          \/ now - st.hold_started < SWITCH_HOLD_THRESHOLD
    THEN st
    ELSE [st EXCEPT !.ramp = "created"]

\* is bit m of the reported mask set (m is a single bit)
MaskHas(mask, m) == BitAnd(mask, m) # 0

\* _iter_button_bits(mask & ~previous_mask): the single bits newly set
LearnBits(mask, previous_mask) ==
    {m \in 1..mask : BitAnd(m, m - 1) = 0 /\ MaskHas(mask, m) /\ ~MaskHas(previous_mask, m)}

\* _handle_button_event for a report of switch with the given mask: every
\* newly set bit that no button state of the switch has is recorded as a
\* learned button (async_record_learned_switch, one commit each; op.changed
\* holds the pairs recorded), then every button of the switch is pressed,
\* released, held or left alone.
HandleButtonEvent(switch, mask) ==
    LET previous_mask == IF switch \in DOMAIN switchMasks THEN switchMasks[switch] ELSE 0
        masks == SortedSeq({k[2] : k \in {x \in DOMAIN buttonStates : x[1] = switch}})
        keys == [i \in 1..Len(masks) |-> <<switch, masks[i]>>]
        unknown == {m \in LearnBits(mask, previous_mask) : <<switch, m>> \notin DOMAIN buttonStates}
        Pressed(k) == MaskHas(mask, k[2])
        Was(k) == MaskHas(previous_mask, k[2])
        After(k) ==
            IF k[1] # switch THEN buttonStates[k]
            ELSE IF Pressed(k) /\ ~Was(k) THEN HandleButtonPress(buttonStates[k])
            ELSE IF ~Pressed(k) /\ Was(k) THEN HandleButtonRelease(buttonStates[k])
            ELSE IF Pressed(k) THEN HandleButtonHold(buttonStates[k])
            ELSE buttonStates[k]
    IN  /\ switchMasks' = [s \in DOMAIN switchMasks \cup {switch} |->
                              IF s = switch THEN mask ELSE switchMasks[s]]
        /\ reported' = [s \in DOMAIN reported \cup {switch} |->
                            IF s = switch THEN mask ELSE reported[s]]
        /\ buttonStates' = [k \in DOMAIN buttonStates |-> After(k)]
        /\ sent' = ConcatAll([i \in 1..Len(keys) |->
                      IF Pressed(keys[i]) /\ ~Was(keys[i])
                      THEN ToggleGroup(buttonStates[keys[i]]) ELSE << >>])
        /\ logged' = TxLog(sent')
        /\ learned' = learned \cup {<<switch, m>> : m \in unknown}
        /\ ncommit' = Cardinality(unknown) + Len(sent')
        /\ result' = "none"
        /\ op' = OpRecord("button_event", switch, {}, {<<switch, m>> : m \in unknown}, {})
        /\ UNCHANGED <<coreVars, pwmVars, serviceVars, switches, buttons, ssr, now, linkVars>>

\* _run_pwm_ramp, first step: _ensure_group_on turns a dark group on
RampEnsureGroupOn(k) ==
    LET st == buttonStates[k]
        g == st.group_id[1]
    IN  /\ st.ramp = "created"
        /\ buttonStates' = [buttonStates EXCEPT ![k].ramp = "running"]
        /\ IF g \in DOMAIN groups /\ ~groups[g].is_on
           THEN GroupActionEffects(g, "on")
           ELSE sent' = << >> /\ logged' = << >> /\ ncommit' = 0 /\ result' = "none"
        /\ op' = OpRecord("ramp_start", g, {}, {}, {})
        /\ UNCHANGED <<coreVars, pwmVars, serviceVars, switchVars, switchMasks, reported, now, linkVars>>

\* can _step_group_pwm move an output of the group
CanStep(group_id, direction) ==
    /\ group_id \in DOMAIN groups
    /\ \E oid \in SeqToSet(ResolveOutputIds(groups[group_id].led_ids)) :
          StepOutput(OutputOf(oid), direction) # OutputOf(oid)

\* the running ramp tasks of a button state that can take a turn: the one
\* ramp_task refers to and the orphans
RampRunners(st) ==
    (IF st.ramp = "running" THEN {"ramp_task"} ELSE {})
        \cup (IF st.orphans > 0 THEN {"orphan"} ELSE {})

\* _run_pwm_ramp, one turn of the loop while the button is pressed, by any
\* of the button's running tasks
RampStepGroup(k) ==
    LET st == buttonStates[k]
    IN  /\ st.pressed
        /\ RampRunners(st) # {}
        /\ StepGroupPwm(st.group_id[1], st.direction)

\* _run_pwm_ramp ends when a step moves nothing or the button is no longer
\* pressed; its finally clause empties ramp_task, whatever task that refers
\* to
RampEnds(k) ==
    LET st == buttonStates[k]
    IN  /\ ~st.pressed \/ ~CanStep(st.group_id[1], st.direction)
        /\ \E who \in RampRunners(st) :
              buttonStates' = [buttonStates EXCEPT
                  ![k].ramp = "none",
                  ![k].orphans = IF who = "orphan"
                                 THEN @ - 1 + (IF st.ramp # "none" THEN 1 ELSE 0)
                                 ELSE @]
        /\ op' = OpRecord("ramp_end", st.group_id[1], {}, {}, {})
        /\ sent' = << >> /\ logged' = << >> /\ ncommit' = 0 /\ result' = "none"
        /\ UNCHANGED <<coreVars, pwmVars, serviceVars, switchVars, switchMasks, reported, now, linkVars>>

\* a cancelled ramp task gets its CancelledError at the await it is
\* suspended at: it sends nothing more, and its finally clause empties
\* ramp_task, whatever task that refers to
RampCancelled(k) ==
    LET st == buttonStates[k]
    IN  /\ st.cancelled > 0
        /\ buttonStates' = [buttonStates EXCEPT
                                ![k].cancelled = @ - 1,
                                ![k].ramp = "none",
                                ![k].orphans = IF st.ramp # "none" THEN @ + 1 ELSE @]
        /\ op' = OpRecord("ramp_cancelled", st.group_id[1], {}, {}, {})
        /\ sent' = << >> /\ logged' = << >> /\ ncommit' = 0 /\ result' = "none"
        /\ UNCHANGED <<coreVars, pwmVars, serviceVars, switchVars, switchMasks, reported, now, linkVars>>

-----------------------------------------------------------------------------
(* SpecButtons: one switch with a button bound to g1, the group of oA *)

InitButtons ==
    /\ drivers = InitDrivers(ConfiguredOutput("d1", 0, {0}, 1, 2),
                             ConfiguredOutput("d1", 1, {1}, 0, 1),
                             ConfiguredOutput("d2", 0, {0}, 0, 1))
    /\ groups = InitGroups(drivers, [g1 |-> <<oA>>, g2 |-> <<oB, oC>>])
    /\ helpers = AllConnected
    /\ InitHistory
    /\ IdlePwm /\ IdleLink
    /\ IdleServices
    /\ switches = [s \in {"s1"} |-> [switch |-> 1, button_count |-> 5]]
    /\ ssr = << >>
    /\ learned = {}
    /\ buttons = [b \in {"b1"} |->
                     [switch_id |-> "s1", switch |-> 1, mask |-> 1, group_id |-> Some("g1")]]
    /\ buttonStates = SyncButtons(<< >>)
    /\ switchMasks = << >>
    /\ reported = << >>
    /\ now = 1

ButtonMasks == {0, 1}

\* time passes; the CancelledError of a cancelled task is delivered on the
\* next turn of the event loop (Task.cancel schedules the task with
\* call_soon), before any measurable time has passed
Tick ==
    /\ now < MaxNow
    /\ \A k \in DOMAIN buttonStates : buttonStates[k].cancelled = 0
    /\ now' = now + 1
    /\ UNCHANGED <<coreVars, histVars, pwmVars, serviceVars, switchVars, buttonStates, switchMasks, reported, linkVars>>

ButtonEvent == \E mask \in ButtonMasks : HandleButtonEvent(1, mask)

RampTask ==
    \E k \in DOMAIN buttonStates :
        \/ RampEnsureGroupOn(k)
        \/ RampStepGroup(k)
        \/ RampEnds(k)
        \/ RampCancelled(k)

\* the controller reports oA lit or dark
ButtonSpecEvent ==
    \E l \in {0, 1} :
        ProcessLedChannelState("c1", [NoField EXCEPT !.dvr = Some(0), !.c = Some(0),
                                                     !.level = Some(l)])

NextButtons ==
    \/ Tick
    \/ ButtonEvent
    \/ RampTask
    \/ ButtonSpecEvent

SpecButtons == InitButtons /\ [][NextButtons]_vars

-----------------------------------------------------------------------------
(* SpecRamp: a button bound to g1 = oA, oB, pressed, held and released, with
   nothing else writing the outputs.  A ramp task that can take a turn of
   its loop takes it: its sleep of _PWM_STEP_INTERVAL ends and the event
   loop runs it. *)

\* oA (range 1..3) starts at its minimum or dark at pwm 0, as
\* async_set_output_state leaves it; oB (range 0..1) is enabled or disabled
InitRamp ==
    /\ \E p \in {0, 1},
          b \in {ConfiguredOutput("d1", 1, {1}, 0, 1),
                 DisabledState(ConfiguredOutput("d1", 1, {1}, 0, 1))} :
         drivers = InitDrivers([ConfiguredOutput("d1", 0, {0}, 1, 3) EXCEPT !.pwm = p],
                               b, ConfiguredOutput("d2", 0, {0}, 0, 1))
    /\ groups = InitGroups(drivers, [g1 |-> <<oA, oB>>, g2 |-> <<oC>>])
    /\ helpers = AllConnected
    /\ InitHistory
    /\ IdlePwm /\ IdleLink
    /\ IdleServices
    /\ switches = [s \in {"s1"} |-> [switch |-> 1, button_count |-> 5]]
    /\ ssr = << >>
    /\ learned = {}
    /\ buttons = [b \in {"b1"} |->
                     [switch_id |-> "s1", switch |-> 1, mask |-> 1, group_id |-> Some("g1")]]
    /\ buttonStates = SyncButtons(<< >>)
    /\ switchMasks = << >>
    /\ reported = << >>
    /\ now = 1

NextRamp ==
    \/ Tick
    \/ ButtonEvent
    \/ RampTask

\* what a turn of the ramp task of button state k does to the state the
\* task itself holds: the first turn marks the task running, a step moves
\* the outputs of the group
RampStartTurn(k) ==
    /\ buttonStates[k].ramp = "created"
    /\ buttonStates' = [buttonStates EXCEPT ![k].ramp = "running"]

RampStepTurn(k) ==
    LET st == buttonStates[k]
    IN  /\ st.pressed
        /\ RampRunners(st) # {}
        /\ CanStep(st.group_id[1], st.direction)
        /\ drivers' = SteppedDrivers(st.group_id[1], st.direction)

\* the event loop runs every task that is ready (asyncio.sleep returns and
\* a cancelled task is woken): a ramp task that can take its next turn
\* takes it
RampFairness ==
    \A k \in {<<1, 1>>} :
        /\ WF_buttonStates(RampStartTurn(k))
        /\ WF_drivers(RampStepTurn(k))
        /\ WF_vars(RampEnds(k))
        /\ WF_vars(RampCancelled(k))

SpecRamp == InitRamp /\ [][NextRamp]_vars /\ RampFairness

-----------------------------------------------------------------------------
(* SerialHelper and the manager's helper map for controller c1
   (serial_helper.py, manager.py:129-181).  port says whether the serial
   port can be opened and carries data; link is the helper the manager
   tracks; wire is what reached the serial link; accepted is the set of
   lines async_send took since the helper was created.  async_close runs
   as one step, so its _closing flag is never seen set. *)

MaxLines == 3

\* a SerialHelper after __init__
NewHelper ==
    [connected |-> FALSE, queue |-> << >>, writer |-> "none", inflight |-> None,
     reader |-> FALSE, reconnect |-> FALSE, reconnecting |-> FALSE]

\* async_connect succeeding: reader and writer tasks run, and a reconnect
\* loop that made the call returns
Connected(h) ==
    [h EXCEPT !.connected = TRUE, !.reader = TRUE, !.writer = "idle",
              !.reconnecting = FALSE, !.reconnect = FALSE]

\* _handle_serial_failure: unless a reconnect is under way, the connection
\* is torn down with the queue kept, and a reconnect loop is scheduled
HandleSerialFailure(h) ==
    IF h.reconnecting THEN h
    ELSE [h EXCEPT !.reconnecting = TRUE, !.connected = FALSE, !.reader = FALSE,
                   !.writer = "none", !.inflight = None, !.reconnect = TRUE]

\* the manager's view of a helper
HelperStatus(l) ==
    IF l = None THEN "absent" ELSE IF l[1].connected THEN "connected" ELSE "down"

LinkStep(l) ==
    /\ link' = l
    /\ helpers' = [helpers EXCEPT !["c1"] = HelperStatus(l)]
    /\ UNCHANGED <<drivers, groups, histVars, pwmVars, serviceVars, switchVars, buttonVars>>

\* _sync_clients with c1 in the registry: a missing helper is created, one
\* connect is attempted and the helper is stored whether or not it opened;
\* a helper with the same port and baudrate is left alone
SyncClientsTracked ==
    /\ LinkStep(IF link # None THEN link
                ELSE IF port THEN Some(Connected(NewHelper)) ELSE Some(NewHelper))
    /\ UNCHANGED <<port, wire, accepted>>

\* _sync_clients with c1 gone from the registry: the helper is closed, its
\* queues are dropped, and it leaves the map
SyncClientsRemoved ==
    /\ link # None
    /\ LinkStep(None)
    /\ wire' = << >>
    /\ accepted' = {}
    /\ port' = port

\* JsonHelper.async_send / SerialHelper.async_send: the line joins the queue
AsyncSend ==
    /\ link # None
    /\ Cardinality(accepted) < MaxLines
    /\ LET line == Cardinality(accepted) + 1
       IN  /\ LinkStep(Some([link[1] EXCEPT !.queue = Append(@, line)]))
           /\ accepted' = accepted \cup {line}
    /\ UNCHANGED <<port, wire>>

\* the writer loop takes a line off the queue and hands it to the stream
WriterDequeue ==
    /\ link # None
    /\ link[1].writer = "idle"
    /\ link[1].queue # << >>
    /\ LinkStep(Some([link[1] EXCEPT !.writer = "draining",
                                     !.inflight = Some(Head(link[1].queue)),
                                     !.queue = Tail(link[1].queue)]))
    /\ UNCHANGED <<port, wire, accepted>>

\* drain returns: the line is on the serial link
WriterDrainOk ==
    /\ link # None
    /\ link[1].writer = "draining"
    /\ port
    /\ LinkStep(Some([link[1] EXCEPT !.writer = "idle", !.inflight = None]))
    /\ wire' = Append(wire, link[1].inflight[1])
    /\ UNCHANGED <<port, accepted>>

\* the write raises: the writer loop reports the failure and ends
WriterDrainFails ==
    /\ link # None
    /\ link[1].writer = "draining"
    /\ ~port
    /\ LinkStep(Some(HandleSerialFailure(link[1])))
    /\ UNCHANGED <<port, wire, accepted>>

\* the reader loop meets EOF and reports the failure; a writer cancelled in
\* drain had handed its line to the stream, which may or may not have
\* carried it out
ReaderEof ==
    /\ link # None
    /\ link[1].reader
    /\ ~port
    /\ LinkStep(Some(HandleSerialFailure(link[1])))
    /\ \/ wire' = wire
       \/ link[1].inflight # None /\ wire' = Append(wire, link[1].inflight[1])
    /\ UNCHANGED <<port, accepted>>

\* one turn of the reconnect loop: async_connect opens the port or the loop
\* sleeps and tries again
ReconnectAttempt ==
    /\ link # None
    /\ link[1].reconnect
    /\ LinkStep(IF port THEN Some(Connected(link[1])) ELSE link)
    /\ UNCHANGED <<port, wire, accepted>>

\* the serial port appears or disappears
PortChanges ==
    /\ port' = ~port
    /\ UNCHANGED <<coreVars, histVars, pwmVars, serviceVars, switchVars, buttonVars, link, wire, accepted>>

-----------------------------------------------------------------------------
(* SpecTransport: one controller's helper; SpecTransportFair adds the
   scheduling of the helper's own tasks *)

InitTransport ==
    /\ drivers = InitDrivers(ConfiguredOutput("d1", 0, {0}, 1, 2),
                             ConfiguredOutput("d1", 1, {0, 1}, 0, 1),
                             ConfiguredOutput("d2", 0, {0}, 0, 1))
    /\ groups = InitGroups(drivers, [g1 |-> <<oA>>, g2 |-> <<oB, oC>>])
    /\ helpers = [c \in CtrlIds |-> "absent"]
    /\ InitHistory
    /\ IdlePwm /\ IdleSwitches /\ IdleButtons
    /\ IdleServices
    /\ port \in BOOLEAN
    /\ link = None
    /\ wire = << >>
    /\ accepted = {}

NextTransport ==
    \/ SyncClientsTracked
    \/ SyncClientsRemoved
    \/ AsyncSend
    \/ WriterDequeue
    \/ WriterDrainOk
    \/ WriterDrainFails
    \/ ReaderEof
    \/ ReconnectAttempt
    \/ PortChanges

SpecTransport == InitTransport /\ [][NextTransport]_vars

\* the event loop runs a task that is ready: the reconnect loop wakes from
\* its sleep and the writer loop goes on
SpecTransportFair ==
    /\ SpecTransport
    /\ WF_vars(ReconnectAttempt)
    /\ WF_vars(WriterDequeue)
    /\ WF_vars(WriterDrainOk)

-----------------------------------------------------------------------------
(* JsonHelper: the listener task of one registered helper
   (json_helper.py:24-110).  An inbound line is what json.loads makes of
   its text: json is "invalid" (JSONDecodeError), "array" (valid JSON that
   is not an object) or "object"; t is the object's "t" or "type"; ev is
   its "ev", a string when ev_str holds. *)

MaxInbound == 3

\* the events LedDriverManager._register_json_listeners registers
JsonListeners ==
    {"led.enable", "led.channel_state", "led.disable", "led.fault",
     "led.fault_cleared", "can.message", "status"}

InboundLines ==
    { [json |-> "invalid", t |-> None, ev |-> None, ev_str |-> FALSE],
      [json |-> "array", t |-> None, ev |-> None, ev_str |-> FALSE],
      [json |-> "object", t |-> None, ev |-> Some("led.fault"), ev_str |-> TRUE],
      [json |-> "object", t |-> Some("log"), ev |-> Some("led.fault"), ev_str |-> TRUE],
      [json |-> "object", t |-> Some("event"), ev |-> None, ev_str |-> FALSE],
      [json |-> "object", t |-> Some("event"), ev |-> Some("7"), ev_str |-> FALSE],
      [json |-> "object", t |-> Some("event"), ev |-> Some("boot"), ev_str |-> TRUE],
      [json |-> "object", t |-> Some("event"), ev |-> Some("led.fault"), ev_str |-> TRUE],
      [json |-> "object", t |-> Some("status"), ev |-> None, ev_str |-> FALSE] }

\* the event key the loop derives from a decoded object (lines 87-95), None
\* when the line is skipped
EventKey(line) ==
    IF line.t = Some("event") THEN (IF line.ev_str THEN line.ev ELSE None)
    ELSE IF line.t = Some("status") THEN Some("status")
    ELSE None

\* register_helper / _ensure_listener_task: a task is created unless one is
\* stored and not done
RegisterHelper ==
    /\ listener' = IF listener = None
                   THEN Some([read_queue |-> << >>, running |-> TRUE, called |-> << >>])
                   ELSE Some([listener[1] EXCEPT !.running = TRUE, !.called = << >>])
    /\ UNCHANGED <<coreVars, histVars, pwmVars, switchVars, buttonVars, linkVars, syncVars, taskVars, connVars, controllerVars, dispatchVars>>

\* the helper's reader loop puts a decoded, non-empty line on read_queue
\* (serial_helper.py:134-144)
ReaderPutsLine ==
    /\ listener # None
    /\ Len(listener[1].read_queue) < MaxInbound
    /\ \E line \in InboundLines :
          listener' = Some([listener[1] EXCEPT !.read_queue = Append(@, line),
                                               !.called = << >>])
    /\ UNCHANGED <<coreVars, histVars, pwmVars, switchVars, buttonVars, linkVars, syncVars, taskVars, connVars, controllerVars, dispatchVars>>

\* one pass of _listener_loop over a dequeued line: a JSONDecodeError is
\* caught; message.get on a value that is no dict raises AttributeError,
\* which nothing in the loop catches, so the task ends
ListenerLoopStep ==
    /\ listener # None
    /\ listener[1].running
    /\ listener[1].read_queue # << >>
    /\ LET line == Head(listener[1].read_queue)
           rest == [listener[1] EXCEPT !.read_queue = Tail(@)]
           event == EventKey(line)
       IN  listener' =
              IF line.json = "invalid" THEN Some([rest EXCEPT !.called = << >>])
              ELSE IF line.json # "object"
                   THEN Some([rest EXCEPT !.running = FALSE, !.called = << >>])
              ELSE IF event # None /\ event[1] \in JsonListeners
                   THEN Some([rest EXCEPT !.called = <<event[1]>>])
              ELSE Some([rest EXCEPT !.called = << >>])
    /\ UNCHANGED <<coreVars, histVars, pwmVars, switchVars, buttonVars, linkVars, syncVars, taskVars, connVars, controllerVars, dispatchVars>>

-----------------------------------------------------------------------------
(* SpecJson: lines arriving at one helper's listener task *)

\* the registry of InitGroup with nothing else in use
InitIdleRegistry ==
    /\ drivers = InitDrivers(ConfiguredOutput("d1", 0, {0}, 1, 2),
                             ConfiguredOutput("d1", 1, {0, 1}, 0, 1),
                             ConfiguredOutput("d2", 0, {0}, 0, 1))
    /\ groups = InitGroups(drivers, [g1 |-> <<oA>>, g2 |-> <<oB, oC>>])
    /\ helpers = AllConnected
    /\ InitHistory
    /\ IdlePwm /\ IdleSwitches /\ IdleButtons /\ IdleLink

InitJson ==
    /\ InitIdleRegistry
    /\ IdleSync /\ IdleTasks /\ IdleConn /\ IdleControllers /\ IdleDispatch
    /\ listener = None

NextJson ==
    \/ RegisterHelper
    \/ ReaderPutsLine
    \/ ListenerLoopStep

SpecJson == InitJson /\ [][NextJson]_vars

-----------------------------------------------------------------------------
(* Manager: reconciliation of _serial_helpers with the registry's
   controllers (manager.py:125-181, registry.py:166-168, 359-402, 646-656),
   for the one controller c1.  Every commit notifies the manager, which
   creates a _sync_clients task; a task runs from one await to the next in
   one step.  Ports can be opened. *)

MaxSyncRuns == 2

SyncRuns == 1..MaxSyncRuns

\* SerialHelper objects and poll tasks alive at one time
MaxTransports == 3

MaxPolls == 3

IdleRun == [pc |-> "idle", port |-> "", baudrate |-> 0, helper |-> None,
            detached |-> FALSE, polling |-> FALSE]

\* the identity of a newly created object: the least one not alive
FreeId(used, max) == CHOOSE i \in 1..max : i \notin used /\ \A j \in 1..(i - 1) : j \in used

\* f without the entry of key
Without(f, key) == [x \in DOMAIN f \ {key} |-> f[x]]

\* f with the entry key -> value
With(f, key, value) == [x \in DOMAIN f \cup {key} |-> IF x = key THEN value ELSE f[x]]

\* _handle_registry_change: hass.async_create_task(self._sync_clients())
HandleRegistryChange(runs) ==
    LET r == CHOOSE x \in SyncRuns :
                 runs[x].pc = "idle" /\ \A y \in SyncRuns : runs[y].pc = "idle" => x <= y
    IN  [runs EXCEPT ![r].pc = "new"]

\* the _sync_clients tasks that are pending or suspended
PendingRuns(s) == {r \in SyncRuns : s.runs[r].pc # "idle"}

\* a SerialHelper that is closed and that nothing refers to any more is
\* collected
Referenced(s) ==
    {h \in DOMAIN s.transports :
        \/ s.serial_helper = Some(h)
        \/ s.json_helpers = Some(h)
        \/ h \in DOMAIN s.listeners
        \/ \E r \in SyncRuns : s.runs[r].helper = Some(h)}

Collect(s) ==
    [s EXCEPT !.transports =
        [h \in {x \in DOMAIN s.transports : ~s.transports[x].closed \/ x \in Referenced(s)} |->
            s.transports[h]]]

\* _stop_polling (manager.py:1442-1446); a task cancelled before its first
\* step never runs its body
StopPolling(s) ==
    LET t == s.poll_task
    IN  [s EXCEPT !.poll_enabled = FALSE,
                  !.poll_task = None,
                  !.polls = IF t = None THEN @
                            ELSE IF @[t[1]] = "new" THEN Without(@, t[1])
                            ELSE [@ EXCEPT ![t[1]] = "cancelling"]]

\* _start_polling (manager.py:1416-1440)
StartPolling(s) ==
    IF s.poll_task # None THEN s
    ELSE LET p == FreeId(DOMAIN s.polls, MaxPolls)
         IN  [s EXCEPT !.poll_enabled = TRUE,
                       !.poll_task = Some(p),
                       !.polls = With(@, p, "new")]

\* _apply_polling_state (manager.py:907-911)
ApplyPollingState(s, polling_enabled) ==
    IF polling_enabled THEN StartPolling(s) ELSE StopPolling(s)

\* JsonHelper.unregister_helper (json_helper.py:30-35); a listener task is
\* named by the helper whose read_queue its closure reads
ManagerUnregisterHelper(s) ==
    LET t == s.helper_task
    IN  [s EXCEPT !.json_helpers = None,
                  !.helper_task = None,
                  !.listeners = IF t = None THEN @ ELSE [@ EXCEPT ![t[1]] = "cancelling"]]

\* JsonHelper.register_helper and _ensure_listener_task (json_helper.py:25-28,
\* 53-56, 122)
ManagerRegisterHelper(s, h) ==
    IF s.helper_task # None
    THEN [s EXCEPT !.json_helpers = Some(h)]
    ELSE [s EXCEPT !.json_helpers = Some(h),
                   !.helper_task = Some(h),
                   !.listeners = With(@, h, "running")]

\* helper = SerialHelper(port=port, baudrate=baudrate), held by run r
CreateHelper(s, r, port_value, baudrate) ==
    LET h == FreeId(DOMAIN s.transports, MaxTransports)
    IN  [s EXCEPT !.transports = With(@, h, [port |-> port_value, baudrate |-> baudrate,
                                             closed |-> FALSE]),
                  !.runs[r].helper = Some(h),
                  !.runs[r].pc = "connecting"]

\* the controller dict a run holds is the registry's own dict, which an
\* upsert updates in place; a delete detaches it with its last values
RunPollingEnabled(s, r) ==
    IF s.runs[r].detached THEN s.runs[r].polling ELSE s.controller.polling_enabled

SyncFrame == UNCHANGED <<coreVars, histVars, pwmVars, switchVars, buttonVars, linkVars, jsonVars, taskVars, connVars, controllerVars, dispatchVars>>

\* the ready poll and listener tasks have run: the event loop runs a task
\* that was woken or created by a step before anything that becomes ready
\* later
PollTasksSettled(s) == \A p \in DOMAIN s.polls : s.polls[p] = "looping"

\* a _sync_clients task can be created: a run is free, and every run will
\* find a free SerialHelper identity
CanSchedule(s) ==
    /\ \E r \in SyncRuns : s.runs[r].pc = "idle"
    /\ Cardinality(DOMAIN s.transports) + Cardinality(PendingRuns(s)) < MaxTransports

\* async_upsert_controller with a payload [port, baudrate, polling_enabled];
\* a port of None clears the port
AsyncUpsertController(port_value, baudrate, polling_enabled) ==
    /\ sync # None
    /\ CanSchedule(sync[1])
    /\ sync' = Some([sync[1] EXCEPT
                        !.controller = [present |-> TRUE, port |-> port_value,
                                        baudrate |-> baudrate,
                                        polling_enabled |-> polling_enabled],
                        !.runs = HandleRegistryChange(@)])
    /\ SyncFrame

\* async_delete_controller
AsyncDeleteController ==
    /\ sync # None
    /\ sync[1].controller.present
    /\ CanSchedule(sync[1])
    /\ LET detach == [r \in SyncRuns |->
                         IF sync[1].runs[r].pc \in {"idle", "new"} \/ sync[1].runs[r].detached
                         THEN sync[1].runs[r]
                         ELSE [sync[1].runs[r] EXCEPT
                                  !.detached = TRUE,
                                  !.polling = sync[1].controller.polling_enabled]]
       IN  sync' = Some([sync[1] EXCEPT !.controller.present = FALSE,
                                        !.runs = HandleRegistryChange(detach)])
    /\ SyncFrame

\* _sync_clients from its start to its first await (or its end): the
\* controllers are read; a helper of a controller that is gone is popped and
\* closed; otherwise the helper is closed when the port is cleared or
\* differs, or a new helper is connected; a run that has nothing to await
\* applies the polling flag and ends
SyncClientsStart(r) ==
    LET s == sync[1]
        c == s.controller
        h == s.serial_helper
        Goto(pc) == [s.runs[r] EXCEPT !.pc = pc,
                                      !.port = IF c.port = None THEN "" ELSE c.port[1],
                                      !.baudrate = c.baudrate,
                                      !.helper = h]
        Ends(t) == [t EXCEPT !.runs[r] = IdleRun]
    IN  /\ sync # None
        /\ s.runs[r].pc = "new"
        /\ PollTasksSettled(s)
        /\ sync' = Some(Collect(
             IF ~c.present
             THEN IF h # None
                  THEN [s EXCEPT !.serial_helper = None,
                                 !.runs[r] = Goto("stale_close")]
                  ELSE Ends(s)
             ELSE IF c.port = None
             THEN IF h # None
                  THEN [s EXCEPT !.runs[r] = Goto("clear_close")]
                  ELSE Ends(ApplyPollingState(s, c.polling_enabled))
             ELSE IF h # None /\ s.transports[h[1]].port = c.port[1]
                              /\ s.transports[h[1]].baudrate = c.baudrate
             THEN Ends(ApplyPollingState(s, c.polling_enabled))
             ELSE IF h # None
             THEN [s EXCEPT !.runs[r] = Goto("swap_close")]
             ELSE CreateHelper([s EXCEPT !.runs[r] = Goto("connecting")], r,
                               c.port[1], c.baudrate)))
        /\ SyncFrame

\* _sync_clients resumed after an await.  After the close of a popped helper
\* the helper is unregistered and the polling stopped; after the close for a
\* cleared port the entry is popped as well and the polling flag applied;
\* after the close for a changed port a new helper is connected; after the
\* connect the helper is stored and registered and the polling flag applied
SyncClientsResume(r) ==
    LET s == sync[1]
        run == s.runs[r]
        Closed(t) == [t EXCEPT !.transports[run.helper[1]].closed = TRUE]
        Ends(t) == [t EXCEPT !.runs[r] = IdleRun]
    IN  /\ sync # None
        /\ run.pc \in {"stale_close", "clear_close", "swap_close", "connecting"}
        /\ PollTasksSettled(s)
        /\ sync' = Some(Collect(
             IF run.pc = "stale_close"
             THEN Ends(StopPolling(ManagerUnregisterHelper(Closed(s))))
             ELSE IF run.pc = "clear_close"
             THEN Ends(ApplyPollingState(
                          StopPolling([ManagerUnregisterHelper(Closed(s)) EXCEPT
                                          !.serial_helper = None]),
                          RunPollingEnabled(s, r)))
             ELSE IF run.pc = "swap_close"
             THEN CreateHelper(ManagerUnregisterHelper(Closed(s)), r, run.port, run.baudrate)
             ELSE Ends(ApplyPollingState(
                          ManagerRegisterHelper([s EXCEPT !.serial_helper = run.helper],
                                         run.helper[1]),
                          RunPollingEnabled(s, r)))))
        /\ SyncFrame

\* _poll_loop of a cancelled task: the CancelledError runs the finally
\* clause, which pops whatever task _poll_tasks holds
PollLoopCancelled(p) ==
    /\ sync # None
    /\ p \in DOMAIN sync[1].polls
    /\ sync[1].polls[p] = "cancelling"
    /\ sync' = Some([sync[1] EXCEPT !.polls = Without(@, p),
                                    !.poll_task = None,
                                    !.poll_enabled = FALSE])
    /\ SyncFrame

\* _poll_loop, one turn of the while loop (or its finally clause when the
\* controller is not in _poll_enabled): with a helper in _serial_helpers the
\* status request is logged, which commits and so creates a _sync_clients
\* task, and handed to JsonHelper.async_send, whose ValueError is caught
PollLoopTurn(p) ==
    LET s == sync[1]
        sends == s.poll_enabled /\ s.serial_helper # None
    IN  /\ sync # None
        /\ p \in DOMAIN s.polls
        /\ s.polls[p] \in {"new", "looping"}
        /\ \A q \in DOMAIN s.polls : s.polls[q] # "cancelling"
        /\ sends => CanSchedule(s)
        /\ sync' = Some(
             IF ~s.poll_enabled
             THEN [s EXCEPT !.polls = Without(@, p), !.poll_task = None]
             ELSE [s EXCEPT !.polls[p] = "looping",
                            !.runs = IF sends THEN HandleRegistryChange(@) ELSE @])
        /\ logged' = IF sends THEN <<LogEntry("c1", "tx")>> ELSE << >>
        /\ ncommit' = IF sends THEN 1 ELSE 0
        /\ sent' = IF sends /\ s.json_helpers # None
                   THEN <<[ctrl |-> "c1", cm |-> "status"]>> ELSE << >>
        /\ result' = IF sends /\ s.json_helpers # None THEN "queued" ELSE "none"
        /\ op' = OpRecord("poll", "c1", {}, {}, {})
        /\ UNCHANGED <<coreVars, pwmVars, switchVars, buttonVars, linkVars, jsonVars, taskVars, connVars, controllerVars, dispatchVars>>

\* _listener_loop of a cancelled task: its finally clause pops helper_tasks
\* only when that still holds the task itself
ListenerCancelled(h) ==
    /\ sync # None
    /\ h \in DOMAIN sync[1].listeners
    /\ sync[1].listeners[h] = "cancelling"
    /\ sync' = Some(Collect([sync[1] EXCEPT
                                !.listeners = Without(@, h),
                                !.helper_task = IF @ = Some(h) THEN None ELSE @]))
    /\ SyncFrame

-----------------------------------------------------------------------------
(* SpecSync: controller upserts and deletes with overlapping _sync_clients
   tasks, starting after async_initialize has connected c1 and applied its
   polling flag *)

InitSync ==
    /\ InitIdleRegistry
    /\ IdleJson /\ IdleTasks /\ IdleConn /\ IdleControllers /\ IdleDispatch
    /\ \E polling_enabled \in BOOLEAN :
          sync = Some([controller |-> [present |-> TRUE, port |-> Some("/dev/ttyUSB0"),
                                       baudrate |-> 115200,
                                       polling_enabled |-> polling_enabled],
                       serial_helper |-> Some(1),
                       transports |-> [h \in {1} |-> [port |-> "/dev/ttyUSB0",
                                                      baudrate |-> 115200,
                                                      closed |-> FALSE]],
                       json_helpers |-> Some(1),
                       helper_task |-> Some(1),
                       listeners |-> [h \in {1} |-> "running"],
                       poll_task |-> IF polling_enabled THEN Some(1) ELSE None,
                       poll_enabled |-> polling_enabled,
                       polls |-> [p \in (IF polling_enabled THEN {1} ELSE {}) |-> "looping"],
                       runs |-> [r \in SyncRuns |-> IdleRun]])

\* the port is cleared, kept, changed, or kept with another baud rate
SyncPayloads ==
    { <<None, 115200>>, <<Some("/dev/ttyUSB0"), 115200>>,
      <<Some("/dev/ttyUSB1"), 115200>>, <<Some("/dev/ttyUSB0"), 9600>> }

NextSync ==
    \/ \E payload \in SyncPayloads, polling_enabled \in BOOLEAN :
              AsyncUpsertController(payload[1], payload[2], polling_enabled)
    \/ AsyncDeleteController
    \/ \E r \in SyncRuns : SyncClientsStart(r)
    \/ \E r \in SyncRuns : SyncClientsResume(r)
    \/ \E p \in 1..MaxPolls : PollLoopCancelled(p)
    \/ \E p \in 1..MaxPolls : PollLoopTurn(p)
    \/ \E h \in 1..MaxTransports : ListenerCancelled(h)

SpecSync == InitSync /\ [][NextSync]_vars

-----------------------------------------------------------------------------
(* Manager: background tasks of controller c1 and async_shutdown
   (manager.py:718-742, 1270-1309, 1416-1446; json_helper.py:52-110;
   serial_helper.py:83-94, 232-255).  A task is "none" (not created, or
   finished), "running", or "cancelling": Task.cancel() has been called and
   the task has not run since, so it is not done yet.  async_shutdown is at
   "idle" (not called), at one of its awaits, or "returned". *)

TaskKinds == {"dispatch", "poll", "reconnect", "ramp"}

\* Task.cancel()
Cancel(status) == IF status = "running" THEN "cancelling" ELSE status

TaskFrame == UNCHANGED <<coreVars, histVars, pwmVars, switchVars, buttonVars, linkVars,
                         jsonVars, syncVars, events, connVars, controllerVars, dispatchVars>>

\* _start_polling, _handle_button_hold and _schedule_reconnect create their
\* task while the manager is in service
TaskStarts(kind) ==
    /\ tasks # None
    /\ tasks[1].shutdown = "idle"
    /\ kind \in {"poll", "reconnect", "ramp"}
    /\ tasks[1].state[kind] = "none"
    /\ tasks' = Some([tasks[1] EXCEPT !.state[kind] = "running"])
    /\ TaskFrame

\* a task runs to its end: the ramp stops, the reconnect succeeds, or a
\* cancelled task takes its CancelledError and runs its finally block
TaskEnds(kind) ==
    /\ tasks # None
    /\ \/ tasks[1].state[kind] = "cancelling"
       \/ tasks[1].state[kind] = "running" /\ kind \in {"reconnect", "ramp"}
    /\ tasks' = Some([tasks[1] EXCEPT !.state[kind] = "none"])
    /\ TaskFrame

\* one round of _poll_loop while the helper is tracked: the status request
\* is logged and sent
PollLoopStep ==
    /\ tasks # None
    /\ tasks[1].state["poll"] = "running"
    /\ tasks[1].shutdown \in {"idle", "closing"}
    /\ sent' = <<[ctrl |-> "c1", cm |-> "status"]>>
    /\ logged' = <<LogEntry("c1", "tx")>>
    /\ ncommit' = 1
    /\ result' = "queued"
    /\ op' = OpRecord("poll", "c1", {}, {}, {})
    /\ UNCHANGED <<coreVars, pwmVars, switchVars, buttonVars, linkVars, serviceVars>>

\* one round of _run_pwm_ramp
RampLoopStep ==
    /\ tasks # None
    /\ tasks[1].state["ramp"] = "running"
    /\ \E direction \in {1, -1} : StepGroupPwm("g1", direction)

\* async_shutdown up to its first await: the registry listener is removed
\* and helper.async_close() cancels the reconnect task and awaits it
ShutdownStart ==
    /\ tasks # None
    /\ tasks[1].shutdown = "idle"
    /\ tasks' = Some([tasks[1] EXCEPT !.shutdown = "closing",
                                      !.state["reconnect"] = Cancel(@)])
    /\ TaskFrame

\* the close has returned: _serial_helpers is cleared, every listener task
\* of the JsonHelper is cancelled and then awaited
ShutdownAfterClose ==
    /\ tasks # None
    /\ tasks[1].shutdown = "closing"
    /\ tasks[1].state["reconnect"] = "none"
    /\ tasks' = Some([tasks[1] EXCEPT !.shutdown = "awaiting_listeners",
                                      !.state["dispatch"] = Cancel(@)])
    /\ TaskFrame

\* the listener tasks are done: _stop_polling cancels the poll task, the
\* ramp tasks are cancelled, and async_shutdown returns
ShutdownReturns ==
    /\ tasks # None
    /\ tasks[1].shutdown = "awaiting_listeners"
    /\ tasks[1].state["dispatch"] = "none"
    /\ tasks' = Some([tasks[1] EXCEPT !.shutdown = "returned",
                                      !.state["poll"] = Cancel(@),
                                      !.state["ramp"] = Cancel(@)])
    /\ TaskFrame

-----------------------------------------------------------------------------
(* SpecShutdown: the tasks of a manager in service, then async_shutdown *)

InitShutdown ==
    /\ InitIdleRegistry
    /\ IdleJson /\ IdleSync /\ IdleConn /\ IdleControllers /\ IdleDispatch
    /\ events = None
    /\ tasks = Some([shutdown |-> "idle",
                     state |-> [k \in TaskKinds |->
                                   IF k = "dispatch" THEN "running" ELSE "none"]])

NextShutdown ==
    \/ \E kind \in TaskKinds : TaskStarts(kind)
    \/ \E kind \in TaskKinds : TaskEnds(kind)
    \/ PollLoopStep
    \/ RampLoopStep
    \/ ShutdownStart
    \/ ShutdownAfterClose
    \/ ShutdownReturns

SpecShutdown == InitShutdown /\ [][NextShutdown]_vars

-----------------------------------------------------------------------------
(* SerialHelper with its awaits (serial_helper.py:55-255).  conn is one
   helper: its fields (writer stands for _reader and _writer together:
   "none", "open", or "closing" once close() was called on the stream; the
   three task fields say whether they hold a task), its reader loop R, its
   writer loop W, its reconnect loop L, and the call X (async_close or
   async_connect) that the user of the helper has in progress.  A task runs
   from one await to the next in one step.  A loop that reported a failure
   stays inside _handle_serial_failure at "wait_reader", "wait_writer" or
   "wait_closed"; H is such a loop whose place in R or W was taken by a new
   loop.  opens counts the connections opened so far, closed says that
   async_close has returned and async_connect was not called since, and
   extra_loops counts reconnect loops created while another one was alive. *)

MaxOpens == 3

HandlerWaits == {"wait_reader", "wait_writer", "wait_closed", "go_writer", "go_closed"}

\* Task.cancel() on a task of the helper.  Both awaits on a task in
\* _teardown_connection sit inside contextlib.suppress(CancelledError), so
\* a loop cancelled there goes on with the teardown; the await of
\* wait_closed() is not protected.
CancelLoop(status) ==
    CASE status \in {"running", "ready"} -> "cancelling"
      [] status = "wait_reader" -> "go_writer"
      [] status = "wait_writer" -> "go_closed"
      [] status = "wait_closed" -> "cancelling"
      [] OTHER -> status

\* the finally clause of _reader_loop and of _writer_loop
LoopEnds(c, who) ==
    IF who = "R" THEN [c EXCEPT !.R = "none", !.reader_task = FALSE]
    ELSE [c EXCEPT !.W = "none", !.writer_task = FALSE]

\* the finally clause of _reconnect_loop
ReconnectLoopEnds(c) ==
    [c EXCEPT !.L = "none", !.reconnecting = FALSE, !.reconnect_task = FALSE]

\* _schedule_reconnect without its test of _reconnect_task
ScheduleReconnectAlways(c) ==
    [c EXCEPT !.L = "ready", !.reconnect_task = TRUE,
              !.extra_loops = IF c.L # "none" THEN 1 ELSE @]

ScheduleReconnect(c) ==
    IF c.reconnect_task /\ c.L # "none" THEN c
    ELSE [c EXCEPT !.L = "ready", !.reconnect_task = TRUE,
                   !.extra_loops = IF c.L # "none" THEN 1 ELSE @]

\* what follows _teardown_connection: the end of async_close, or
\* _schedule_reconnect and the end of the loop that reported the failure
AfterTeardown(c, who) ==
    IF who = "X"
    THEN [c EXCEPT !.write_queue = 0, !.closing = FALSE, !.reconnecting = FALSE,
                   !.X = "none", !.closed = TRUE]
    ELSE LoopEnds(ScheduleReconnect(c), who)

\* _teardown_connection run by who from one of its four parts to its next
\* suspension: 1 the reader task, 2 the writer task, 3 the stream, 4 the fields
RECURSIVE TeardownConnection(_, _, _)
TeardownConnection(c, who, part) ==
    IF part = 1
    THEN LET c1 == [c EXCEPT !.reader_task = FALSE, !.R = IF c.reader_task /\ who # "R" THEN CancelLoop(@) ELSE @]
         IN IF c.reader_task /\ who # "R" /\ c1.R # "none"
            THEN [c1 EXCEPT ![who] = "wait_reader"]
            ELSE TeardownConnection(c1, who, 2)
    ELSE IF part = 2
    THEN LET c1 == [c EXCEPT !.writer_task = FALSE, !.W = IF c.writer_task /\ who # "W" THEN CancelLoop(@) ELSE @]
         IN IF c.writer_task /\ who # "W" /\ c1.W # "none"
            THEN [c1 EXCEPT ![who] = "wait_writer"]
            ELSE TeardownConnection(c1, who, 3)
    ELSE IF part = 3
    THEN IF c.writer # "none"
         THEN [c EXCEPT !.writer = "closing", ![who] = "wait_closed"]
         ELSE TeardownConnection(c, who, 4)
    ELSE AfterTeardown([c EXCEPT !.writer = "none"], who)

\* _handle_serial_failure called by the loop who, followed by the end of that
\* loop when it returns at once
HandleFailure(c, who) ==
    IF c.closing \/ c.reconnecting THEN LoopEnds(c, who)
    ELSE TeardownConnection([c EXCEPT !.reconnecting = TRUE], who, 1)

\* _ensure_reader and _ensure_writer create a task when the field is empty;
\* a loop still inside the failure handler keeps running beside the new one
CanEnsure(c, who, field) ==
    \/ c[field]
    \/ c[who] = "none"
    \/ c[who] = "wait_closed" /\ c.H = "none"

CanOpen(c) ==
    /\ c.opens < MaxOpens
    /\ CanEnsure(c, "R", "reader_task")
    /\ CanEnsure(c, "W", "writer_task")
    /\ ~(~c.reader_task /\ c.R = "wait_closed" /\ ~c.writer_task /\ c.W = "wait_closed")

\* async_connect from open_serial_connection on, the port being openable
Open(c) ==
    [c EXCEPT !.writer = "open",
              !.opens = @ + 1,
              !.H = IF ~c.reader_task /\ c.R = "wait_closed" THEN "R"
                    ELSE IF ~c.writer_task /\ c.W = "wait_closed" THEN "W"
                    ELSE @,
              !.R = IF c.reader_task THEN @ ELSE "running",
              !.reader_task = TRUE,
              !.W = IF c.writer_task THEN @ ELSE "running",
              !.writer_task = TRUE,
              !.reconnecting = FALSE]

ConnFrame == UNCHANGED <<coreVars, histVars, pwmVars, switchVars, buttonVars, linkVars,
                         jsonVars, syncVars, taskVars, controllerVars, dispatchVars>>

\* async_send
EnqueueLine ==
    /\ conn.write_queue < MaxLines
    /\ conn' = [conn EXCEPT !.write_queue = @ + 1]
    /\ ConnFrame

\* _writer_loop takes a line and drain() succeeds
WriterLoopWrites ==
    /\ conn.W = "running" /\ conn.write_queue > 0
    /\ conn.writer = "open" /\ port
    /\ conn' = [conn EXCEPT !.write_queue = @ - 1]
    /\ ConnFrame

\* _writer_loop takes a line and drain() raises
WriterLoopFails ==
    /\ conn.W = "running" /\ conn.write_queue > 0
    /\ conn.writer = "closing" \/ (conn.writer = "open" /\ ~port)
    /\ conn.opens < MaxOpens
    /\ conn' = HandleFailure([conn EXCEPT !.write_queue = @ - 1], "W")
    /\ ConnFrame

\* _writer_loop takes a line and finds _writer empty
WriterLoopStops ==
    /\ conn.W = "running" /\ conn.write_queue > 0
    /\ conn.writer = "none"
    /\ conn' = LoopEnds([conn EXCEPT !.write_queue = @ - 1], "W")
    /\ ConnFrame

\* _reader_loop reads EOF, or its read raises
ReaderLoopFails ==
    /\ conn.R = "running"
    /\ conn.writer # "open" \/ ~port
    /\ conn.opens < MaxOpens
    /\ conn' = HandleFailure(conn, "R")
    /\ ConnFrame

\* a cancelled task runs: CancelledError leaves it through its finally clause
LoopCancelled(who) ==
    /\ conn[who] = "cancelling"
    /\ conn' = IF who = "L" THEN ReconnectLoopEnds(conn) ELSE LoopEnds(conn, who)
    /\ ConnFrame

\* where a suspended _teardown_connection goes on, once what it awaits is done
ResumePart(c, who) ==
    CASE c[who] = "wait_reader" /\ c.R = "none" -> 2
      [] c[who] = "go_writer" -> 2
      [] c[who] = "wait_writer" /\ c.W = "none" -> 3
      [] c[who] = "go_closed" -> 3
      [] c[who] = "wait_closed" -> 4
      [] OTHER -> 0

\* the loop that reported a failure goes on inside _handle_serial_failure
FailureResumes(who) ==
    /\ ResumePart(conn, who) # 0
    /\ conn' = TeardownConnection(conn, who, ResumePart(conn, who))
    /\ ConnFrame

\* the same for a loop whose place was taken by a new one
OrphanResumes ==
    /\ conn.H # "none"
    /\ LET c1 == ScheduleReconnect([conn EXCEPT !.writer = "none", !.H = "none"])
       IN conn' = IF conn.H = "R" THEN [c1 EXCEPT !.reader_task = FALSE]
                  ELSE [c1 EXCEPT !.writer_task = FALSE]
    /\ ConnFrame

\* _reconnect_loop giving up after a failed attempt
ReconnectLoopOnce ==
    /\ conn.L = "ready"
    /\ IF conn.closing \/ conn.writer = "open" \/ ~port THEN conn' = ReconnectLoopEnds(conn)
       ELSE CanOpen(conn) /\ conn' = ReconnectLoopEnds(Open(conn))
    /\ ConnFrame

\* _reconnect_loop: one turn of its while loop
ReconnectLoopStep ==
    /\ conn.L = "ready"
    /\ IF conn.closing \/ conn.writer = "open" THEN conn' = ReconnectLoopEnds(conn)
       ELSE IF ~port THEN conn' = conn
       ELSE CanOpen(conn) /\ conn' = ReconnectLoopEnds(Open(conn))
    /\ ConnFrame

\* async_close called by the user of the helper
CloseCall ==
    /\ conn.X = "none"
    /\ LET c1 == [conn EXCEPT !.closing = TRUE, !.X_op = "close",
                              !.L = IF conn.reconnect_task THEN CancelLoop(@) ELSE @]
       IN conn' = IF conn.reconnect_task /\ c1.L # "none"
                  THEN [c1 EXCEPT !.X = "wait_reconnect"]
                  ELSE TeardownConnection([c1 EXCEPT !.reconnect_task = FALSE], "X", 1)
    /\ ConnFrame

\* async_connect called by the user of the helper after async_close
ConnectCall ==
    /\ conn.X = "none" /\ conn.closed
    /\ LET c1 == [conn EXCEPT !.closed = FALSE, !.X_op = "connect",
                              !.L = IF conn.reconnect_task /\ conn.writer # "open" THEN CancelLoop(@) ELSE @]
       IN IF conn.writer = "open" THEN conn' = c1
          ELSE IF conn.reconnect_task /\ c1.L # "none" THEN conn' = [c1 EXCEPT !.X = "wait_reconnect"]
          ELSE IF ~port THEN conn' = [c1 EXCEPT !.reconnect_task = FALSE]
          ELSE CanOpen(c1) /\ conn' = Open([c1 EXCEPT !.reconnect_task = FALSE])
    /\ ConnFrame

\* the call of the user goes on after its await
CallResumes ==
    /\ conn.X # "none"
    /\ IF conn.X = "wait_reconnect"
       THEN /\ conn.L = "none"
            /\ LET c1 == [conn EXCEPT !.reconnect_task = FALSE]
               IN IF conn.X_op = "close" THEN conn' = TeardownConnection(c1, "X", 1)
                  ELSE IF ~port THEN conn' = [c1 EXCEPT !.X = "none"]
                  ELSE CanOpen(c1) /\ conn' = Open([c1 EXCEPT !.X = "none"])
       ELSE /\ ResumePart(conn, "X") # 0
            /\ conn' = TeardownConnection(conn, "X", ResumePart(conn, "X"))
    /\ ConnFrame

-----------------------------------------------------------------------------
(* SpecHelper: a connected helper, its user and the port.  SpecRecovery: the
   same helper when its user never calls async_close, with the scheduling
   of the tasks of the helper *)

InitHelper ==
    /\ drivers = InitDrivers(ConfiguredOutput("d1", 0, {0}, 1, 2),
                             ConfiguredOutput("d1", 1, {0, 1}, 0, 1),
                             ConfiguredOutput("d2", 0, {0}, 0, 1))
    /\ groups = InitGroups(drivers, [g1 |-> <<oA>>, g2 |-> <<oB, oC>>])
    /\ helpers = AllConnected
    /\ InitHistory
    /\ IdlePwm /\ IdleSwitches /\ IdleButtons
    /\ port = TRUE /\ link = None /\ wire = << >> /\ accepted = {}
    /\ IdleJson /\ IdleSync /\ IdleTasks /\ IdleControllers /\ IdleDispatch
    /\ conn = [writer |-> "open", reader_task |-> TRUE, writer_task |-> TRUE,
               reconnect_task |-> FALSE, closing |-> FALSE, reconnecting |-> FALSE,
               R |-> "running", W |-> "running", L |-> "none", H |-> "none",
               X |-> "none", X_op |-> "close", write_queue |-> 0, opens |-> 1,
               closed |-> FALSE, extra_loops |-> 0]

NextRecovery ==
    \/ EnqueueLine
    \/ WriterLoopWrites
    \/ WriterLoopFails
    \/ ReaderLoopFails
    \/ \E who \in {"R", "W"} : LoopCancelled(who)
    \/ \E who \in {"R", "W"} : FailureResumes(who)
    \/ ReconnectLoopStep
    \/ PortChanges

NextHelper ==
    \/ NextRecovery
    \/ WriterLoopStops
    \/ LoopCancelled("L")
    \/ OrphanResumes
    \/ CloseCall
    \/ ConnectCall
    \/ CallResumes

SpecHelper == InitHelper /\ [][NextHelper]_vars

SpecRecovery ==
    /\ InitHelper /\ [][NextRecovery]_vars
    /\ WF_vars(WriterLoopWrites)
    /\ WF_vars(\E who \in {"R", "W"} : LoopCancelled(who))
    /\ WF_vars(\E who \in {"R", "W"} : FailureResumes(who))
    /\ WF_vars(ReconnectLoopStep)

-----------------------------------------------------------------------------
(* Registry: controllers (registry.py:58-69, 359-402, 646-656).  A stored
   controller is its has_can_interface flag; a payload value is a Python
   bool, str or None, written as its type and its text. *)

ControllerPool == CtrlIds \cup {"c3"}

PyTrue == [type |-> "bool", text |-> "true"]
PyFalse == [type |-> "bool", text |-> "false"]
PyNone == [type |-> "none", text |-> ""]
PyStr(text) == [type |-> "str", text |-> text]

\* _normalize_bool for a text that is stripped and in lower case
NormalizeBool(value, default) ==
    IF value.type = "bool" THEN value.text = "true"
    ELSE IF value.type = "str" /\ value.text \in {"1", "true", "yes", "on"} THEN TRUE
    ELSE IF value.type = "str" /\ value.text \in {"0", "false", "no", "off"} THEN FALSE
    ELSE IF value.type = "none" THEN default
    ELSE value.text # ""

\* controller.get("has_can_interface", controller.get("can_interface", fallback))
PayloadCanFlag(payload, fallback) ==
    IF payload.has_can_interface # None THEN payload.has_can_interface[1]
    ELSE IF payload.can_interface # None THEN payload.can_interface[1]
    ELSE fallback

\* an upsert that leaves the other controllers as they are
StoreController(stored_controllers, controller_id, flag) ==
    [c \in DOMAIN stored_controllers \cup {controller_id} |->
        IF c = controller_id THEN [has_can_interface |-> flag] ELSE stored_controllers[c]]

\* lines 392-399: the controller is stored, and when its flag is set every
\* other controller loses the flag
StoreControllerExclusive(stored_controllers, controller_id, flag) ==
    [c \in DOMAIN stored_controllers \cup {controller_id} |->
        IF c = controller_id THEN [has_can_interface |-> flag]
        ELSE IF flag THEN [stored_controllers[c] EXCEPT !.has_can_interface = FALSE]
        ELSE stored_controllers[c]]

ControllerFrame ==
    UNCHANGED <<helpers, pwmVars, switchVars, buttonVars, linkVars,
                jsonVars, syncVars, taskVars, connVars, dispatchVars>>

\* async_upsert_controller with a payload [id, has_can_interface, can_interface]:
\* the part that keeps the flag; op.changed holds the other controllers that
\* lost the flag
AsyncUpsertControllerFlag(payload) ==
    LET controller_id == IF payload.id # None THEN payload.id[1]
                         ELSE NewId(ControllerPool, DOMAIN controllers)
        created == NormalizeBool(PayloadCanFlag(payload, PyFalse), FALSE)
        before == IF controller_id \in DOMAIN controllers
                  THEN controllers[controller_id].has_can_interface ELSE created
        flag == NormalizeBool(PayloadCanFlag(payload, IF before THEN PyTrue ELSE PyFalse), FALSE)
    IN  /\ payload.id = None => ControllerPool \ DOMAIN controllers # {}
        /\ controllers' = StoreControllerExclusive(controllers, controller_id, flag)
        /\ UNCHANGED <<drivers, groups>>
        /\ sent' = << >>
        /\ logged' = << >>
        /\ ncommit' = 1
        /\ result' = "ok"
        /\ op' = OpRecord("upsert_controller", controller_id, {},
                          {c \in DOMAIN controllers \ {controller_id} :
                              controllers[c].has_can_interface
                                  /\ ~controllers'[c].has_can_interface}, {})
        /\ ControllerFrame

\* async_delete_controller: the drivers of the controller are deleted with
\* async_delete_driver (one commit each), then the controller; an unknown id
\* is ignored
AsyncDeleteControllerEntry(controller_id) ==
    LET gone == {d \in DOMAIN drivers : drivers[d].controller_id = controller_id}
        known == controller_id \in DOMAIN controllers
    IN  /\ controllers' = [c \in DOMAIN controllers \ {controller_id} |-> controllers[c]]
        /\ drivers' = IF known THEN [d \in DOMAIN drivers \ gone |-> drivers[d]] ELSE drivers
        /\ groups' = IF known
                     THEN [g \in DOMAIN groups |->
                             [groups[g] EXCEPT !.led_ids =
                                 SelectSeq(groups[g].led_ids, LAMBDA oid : oid[1] \notin gone)]]
                     ELSE groups
        /\ sent' = << >>
        /\ logged' = << >>
        /\ ncommit' = IF known THEN Cardinality(gone) + 1 ELSE 0
        /\ result' = IF known THEN "ok" ELSE "ignored"
        /\ op' = OpRecord("delete_controller", controller_id, {},
                          ChangedOutputs(drivers, drivers'), FlippedGroups(groups, groups'))
        /\ ControllerFrame

-----------------------------------------------------------------------------
(* SpecControllers: controller upserts and deletes on a registry that holds
   c1 and c2 without the flag *)

CanFlagValues ==
    {PyTrue, PyFalse, PyNone, PyStr("yes"), PyStr("off"), PyStr("maybe"), PyStr("")}

ControllerPayloads ==
    {[id |-> i, has_can_interface |-> f, can_interface |-> a] :
        i \in {None} \cup {Some(c) : c \in ControllerPool},
        f \in {None} \cup {Some(v) : v \in CanFlagValues},
        a \in {None, Some(PyTrue), Some(PyStr("off"))}}

InitControllers ==
    /\ drivers = InitDrivers(ConfiguredOutput("d1", 0, {0}, 1, 2),
                             ConfiguredOutput("d1", 1, {0, 1}, 0, 1),
                             ConfiguredOutput("d2", 0, {0}, 0, 1))
    /\ groups = InitGroups(drivers, [g1 |-> <<oA>>, g2 |-> <<oB, oC>>])
    /\ helpers = AllConnected
    /\ InitHistory
    /\ IdlePwm /\ IdleSwitches /\ IdleButtons /\ IdleLink
    /\ IdleJson /\ IdleSync /\ IdleTasks /\ IdleConn /\ IdleDispatch
    /\ controllers = [c \in CtrlIds |-> [has_can_interface |-> FALSE]]

UpsertController == \E payload \in ControllerPayloads : AsyncUpsertControllerFlag(payload)

DeleteController == \E c \in ControllerPool : AsyncDeleteControllerEntry(c)

NextControllers ==
    \/ UpsertController
    \/ DeleteController

SpecControllers == InitControllers /\ [][NextControllers]_vars

-----------------------------------------------------------------------------
(* SpecLearn: switch and button upserts and deletes of the registry, the
   manager's _sync_buttons that a registry change schedules
   (_handle_registry_change creates the _sync_clients task, which ends with
   _sync_buttons), and button events of the switches at addresses 1 and 2 *)

\* _sync_buttons as the last step of a _sync_clients task
SyncButtonsCall ==
    /\ buttonStates' = SyncButtons(buttonStates)
    /\ switchMasks' = [s \in {x \in DOMAIN switchMasks :
                                 \E k \in DOMAIN buttonStates' : k[1] = x} |-> switchMasks[s]]
    /\ UNCHANGED <<coreVars, histVars, pwmVars, serviceVars, switchVars, reported, now, linkVars>>

LearnAddresses == {1, 2}

LearnMasks == 0..2

\* the switch s1 stored with a hardware address
LearnSwitchPayloads ==
    {[id |-> Some("s1"), switch |-> Some(v), button_count |-> None] : v \in LearnAddresses}

\* the button b1 stored under the switch with a single-bit mask and no group
LearnButtonPayloads ==
    {[id |-> Some("b1"), switch_id |-> Some("s1"), switch |-> None, mask |-> m, group_id |-> None] :
        m \in {1, 2}}

LearnUpsertSwitch == \E payload \in LearnSwitchPayloads : AsyncUpsertSwitch(payload)

LearnUpsertButton ==
    \E payload \in LearnButtonPayloads, parent \in {None} \cup {Some(s) : s \in SwitchIds} :
        AsyncUpsertButton(payload, parent)

LearnEvent ==
    \E switch \in LearnAddresses, mask \in LearnMasks : HandleButtonEvent(switch, mask)

InitLearn ==
    /\ InitSwitch
    /\ learned = {}

NextLearn ==
    \/ LearnUpsertSwitch
    \/ DeleteSwitch
    \/ LearnUpsertButton
    \/ DeleteButton
    \/ SyncButtonsCall
    \/ LearnEvent

SpecLearn == InitLearn /\ [][NextLearn]_vars

-----------------------------------------------------------------------------
(* JsonHelper with its helpers and listener tasks (json_helper.py:25-122),
   for one helper name.  helper is helpers[name], a SerialHelper object or
   None; tasks are the listener tasks created so far, each with the
   SerialHelper its closure holds and its status, and helper_task is the
   index of helper_tasks[name]; read_queue and write_queue are the queues
   of the SerialHelper objects; invoked lists the callback invocations.  A
   line is its arrival number seq and what the loop makes of it: "event"
   (an event with registered callbacks), "event_raises" (the same, and the
   first callback raises on it), "skipped" (no JSON, no event key or no
   callback) or "array" (JSON that is no object). *)

MaxListenerTasks == 2

MaxSends == 1

HelperObjs == {"h1", "h2"}

\* listeners[event] after register_listener was called twice for the event
Callbacks == <<"first", "second">>

LineKinds == {"event", "event_raises", "skipped", "array"}

\* a get that hands out the newest line
QueueGetNewest(q) == <<q[Len(q)], SubSeq(q, 1, Len(q) - 1)>>

\* queue.get(): the oldest line and the rest
QueueGet(q) == <<Head(q), Tail(q)>>

\* a loop over the callbacks that the first exception leaves
InvokeCallbacksUntilRaise(h, line) ==
    IF line.kind = "event_raises"
    THEN <<[helper |-> h, seq |-> line.seq, callback |-> Callbacks[1], raised |-> TRUE]>>
    ELSE [i \in 1..Len(Callbacks) |->
            [helper |-> h, seq |-> line.seq, callback |-> Callbacks[i], raised |-> FALSE]]

\* the for loop over the callbacks (lines 108-114): each call is in its own
\* try block
InvokeCallbacks(h, line) ==
    [i \in 1..Len(Callbacks) |->
        [helper |-> h, seq |-> line.seq, callback |-> Callbacks[i],
         raised |-> (line.kind = "event_raises" /\ i = 1)]]

\* the finally clause of _listener_loop run by task i
ListenerEnds(j, i) ==
    [j EXCEPT !.tasks[i].status = "done",
              !.helper_task = IF @ = Some(i) THEN None ELSE @]

DispatchFrame == UNCHANGED <<coreVars, histVars, pwmVars, switchVars, buttonVars, linkVars,
                             jsonVars, syncVars, taskVars, connVars, controllerVars>>

\* register_helper(name, h) with _ensure_listener_task
RegisterHelperCall(h) ==
    LET j == json_helper
        alive == j.helper_task # None /\ j.tasks[j.helper_task[1]].status # "done"
    IN  /\ alive \/ Len(j.tasks) < MaxListenerTasks
        /\ json_helper' =
              IF alive THEN [j EXCEPT !.helper = Some(h)]
              ELSE [j EXCEPT !.helper = Some(h),
                             !.tasks = Append(@, [helper |-> h, status |-> "running"]),
                             !.helper_task = Some(Len(j.tasks) + 1)]
        /\ DispatchFrame

\* unregister_helper(name): the task is cancelled and not awaited
UnregisterHelperCall ==
    LET j == json_helper
    IN  /\ j.helper # None
        /\ json_helper' =
              IF j.helper_task = None THEN [j EXCEPT !.helper = None]
              ELSE [j EXCEPT !.helper = None, !.helper_task = None,
                             !.tasks[j.helper_task[1]].status = Cancel(@)]
        /\ DispatchFrame

\* JsonHelper.async_send(name, payload): ValueError without a helper
JsonAsyncSend ==
    LET j == json_helper
    IN  /\ j.helper # None
        /\ j.write_queue[j.helper[1]] < MaxSends
        /\ json_helper' = [j EXCEPT !.write_queue[j.helper[1]] = @ + 1]
        /\ DispatchFrame

\* the reader loop of the SerialHelper h puts a line on its read_queue
LineArrives(h, kind) ==
    LET j == json_helper
    IN  /\ j.arrived < MaxInbound
        /\ json_helper' = [j EXCEPT !.arrived = @ + 1,
                                    !.read_queue[h] = Append(@, [seq |-> j.arrived + 1, kind |-> kind])]
        /\ DispatchFrame

\* one pass of the _listener_loop of task i over a line of its helper
ListenerTaskStep(i) ==
    LET j == json_helper
        h == j.tasks[i].helper
        got == QueueGet(j.read_queue[h])
        line == got[1]
        rest == [j EXCEPT !.read_queue[h] = got[2]]
    IN  /\ j.tasks[i].status = "running"
        /\ j.read_queue[h] # << >>
        /\ json_helper' =
              IF line.kind = "array" THEN ListenerEnds(rest, i)
              ELSE IF line.kind = "skipped" THEN rest
              ELSE [rest EXCEPT !.invoked = @ \o InvokeCallbacks(h, line)]
        /\ DispatchFrame

\* a cancelled listener task runs: CancelledError, then the finally clause
ListenerTaskCancelled(i) ==
    /\ json_helper.tasks[i].status = "cancelling"
    /\ json_helper' = ListenerEnds(json_helper, i)
    /\ DispatchFrame

-----------------------------------------------------------------------------
(* SpecDispatch: lines arriving at two SerialHelper objects that are
   registered, replaced and unregistered under one name *)

InitDispatch ==
    /\ InitIdleRegistry
    /\ IdleJson /\ IdleSync /\ IdleTasks /\ IdleConn /\ IdleControllers
    /\ json_helper = [helper |-> None, helper_task |-> None, tasks |-> << >>,
                      read_queue |-> [h \in HelperObjs |-> << >>],
                      write_queue |-> [h \in HelperObjs |-> 0],
                      arrived |-> 0, invoked |-> << >>]

NextDispatch ==
    \/ \E h \in HelperObjs : RegisterHelperCall(h)
    \/ UnregisterHelperCall
    \/ JsonAsyncSend
    \/ \E h \in HelperObjs, kind \in LineKinds : LineArrives(h, kind)
    \/ \E i \in 1..Len(json_helper.tasks) : ListenerTaskStep(i)
    \/ \E i \in 1..Len(json_helper.tasks) : ListenerTaskCancelled(i)

SpecDispatch == InitDispatch /\ [][NextDispatch]_vars

-----------------------------------------------------------------------------
(* Manager: status snapshots (manager.py:222-227, 967-985, 1042-1221) and
   SpecInbound: channel-state events, fault events and status snapshots
   arriving from c1 while output oB of d1 is disabled and enabled again *)

\* one entry of a status driver's "cs" list (lines 1186-1217): the level
\* comes from "on", else from the state text; a missing pwm reads as 0 and
\* a missing fault flag as false.  The output's disabled flag is not read.
SnapshotOutput(o, ch) ==
    LET new_level == IF ch.on # None THEN (IF ch.on[1] THEN 1 ELSE 0)
                     ELSE IF ch.sa \in {"on", "true", "1"} THEN 1 ELSE 0
        new_pwm == IF ch.pwm # None THEN ch.pwm[1] ELSE 0
        new_fault == ch.flt # None /\ ch.flt[1]
    IN  [o EXCEPT !.level = new_level, !.pwm = new_pwm, !.faulty = new_fault]

\* the loop over the "cs" list of one status driver: outputs_by_slot picks
\* the output of the entry's idx, an idx without an output is skipped
RECURSIVE ApplySnapshotChannels(_, _)
ApplySnapshotChannels(outs, cs) ==
    IF cs = << >> THEN outs
    ELSE LET ch == Head(cs)
         IN  ApplySnapshotChannels(
                 IF ch.idx \in DOMAIN outs
                 THEN [outs EXCEPT ![ch.idx] = SnapshotOutput(outs[ch.idx], ch)]
                 ELSE outs,
                 Tail(cs))

\* matched_driver (lines 1150-1160): the first driver of the controller, in
\* dict order, whose driver_index is the status driver's idx
SnapshotDriver(drv, controller_id, status_index) ==
    LET hits == SelectSeq(DriverOrder,
                    LAMBDA d : /\ d \in DOMAIN drv
                               /\ drv[d].controller_id = controller_id
                               /\ drv[d].driver_index = status_index)
    IN  IF hits = << >> THEN None ELSE Some(Head(hits))

\* the loop over the status drivers of _apply_status_snapshot (lines 1143-1221)
RECURSIVE ApplyStatusSnapshot(_, _, _)
ApplyStatusSnapshot(drv, controller_id, drvs) ==
    IF drvs = << >> THEN drv
    ELSE LET sd == Head(drvs)
             md == SnapshotDriver(drv, controller_id, sd.idx)
         IN  ApplyStatusSnapshot(
                 IF md = None THEN drv
                 ELSE [drv EXCEPT ![md[1]].outputs =
                          ApplySnapshotChannels(drv[md[1]].outputs, sd.cs)],
                 controller_id, Tail(drvs))

\* the outputs a snapshot names: those of a matched driver whose slot is
\* the idx of a "cs" entry
SnapshotNamed(drv, controller_id, drvs) ==
    {o \in {OutId(d, s) : d \in DOMAIN drv, s \in Slots} :
        \E i \in 1..Len(drvs) :
            /\ SnapshotDriver(drv, controller_id, drvs[i].idx) = Some(o[1])
            /\ \E j \in 1..Len(drvs[i].cs) : drvs[i].cs[j].idx = o[2]}

\* _on_status_message: the task logs the message, then
\* _handle_status_response logs it again, applies the snapshot when the
\* message's type is "status", recomputes the groups of the changed outputs
\* and commits when an output or the controller's metadata changed.
\* meta_changed says whether the message's status block differs from the
\* one stored in the controller's metadata.
OnStatusMessage(controller_id, response, meta_changed) ==
    LET is_status == response.t = "status"
        named == IF is_status THEN SnapshotNamed(drivers, controller_id, response.drvs)
                 ELSE {}
    IN  /\ logged' = <<LogEntry(controller_id, "rx"), LogEntry(controller_id, "rx")>>
        /\ drivers' = IF is_status
                      THEN ApplyStatusSnapshot(drivers, controller_id, response.drvs)
                      ELSE drivers
        /\ LET changed == ChangedOutputs(drivers, drivers')
           IN  /\ groups' = UpdateGroupsFromOutputIds(drivers', groups, changed)
               /\ ncommit' = 2 + (IF is_status /\ (meta_changed \/ changed # {})
                                  THEN 1 ELSE 0)
               /\ op' = OpRecord("status", controller_id, named, changed,
                                 FlippedGroups(groups, groups'))
        /\ sent' = << >>
        /\ result' = "none"
        /\ UNCHANGED <<helpers, pwmVars, serviceVars, switchVars, buttonVars, linkVars>>

\* oA (slot 0, channel 0, range 1..2) and oB (slot 1, channels 0 and 1,
\* range 0..1) on driver 0 of c1, oC on c2; g1 holds oA, g2 holds oB and oC
InitInbound == InitGroup

\* addresses of inbound events: channel 1 with slot 0, an unused channel
\* with slot 0, channel 0 with slot 1, and slot 0 alone
InboundAddresses ==
    { [dvr |-> Some(0), c |-> Some(1), i |-> Some(0)],
      [dvr |-> Some(0), c |-> Some(7), i |-> Some(0)],
      [dvr |-> None,    c |-> Some(0), i |-> Some(1)],
      [dvr |-> Some(0), c |-> None,    i |-> Some(0)] }

InboundPayloads ==
    { [level |-> Some(1), on |-> None, sa |-> "", pwm |-> None, flt |-> None],
      [level |-> None, on |-> Some(FALSE), sa |-> "", pwm |-> None, flt |-> Some(TRUE)] }

InboundChannelEvents ==
    {[dvr |-> a.dvr, c |-> a.c, i |-> a.i, level |-> p.level, on |-> p.on,
      sa |-> p.sa, pwm |-> p.pwm, flt |-> p.flt] : a \in InboundAddresses, p \in InboundPayloads}

InboundFaultEvents ==
    {[NoField EXCEPT !.dvr = a.dvr, !.c = a.c, !.i = a.i] : a \in InboundAddresses}

\* "cs" entries for slot 1, and for a slot no driver has
SnapshotChannels ==
    {[idx |-> 1, on |-> on, sa |-> "", pwm |-> None, flt |-> flt] :
        on \in {None, Some(TRUE)}, flt \in {None, Some(TRUE)}}
    \cup {[idx |-> 9, on |-> Some(TRUE), sa |-> "", pwm |-> None, flt |-> None]}

\* status messages about driver 0, and a message of another type
StatusMessages ==
    {[t |-> "status", drvs |-> <<[idx |-> 0, cs |-> <<ch>>]>>] : ch \in SnapshotChannels}
    \cup {[t |-> "other", drvs |-> << >>]}

InboundChannelState == \E ev \in InboundChannelEvents : ProcessLedChannelState("c1", ev)

InboundFault ==
    \E ev \in InboundFaultEvents, is_fault \in BOOLEAN : ProcessLedFault("c1", ev, is_fault)

InboundStatus ==
    \E response \in StatusMessages, meta_changed \in BOOLEAN :
        OnStatusMessage("c1", response, meta_changed)

InboundUpsertDriver == \E payload \in DriverPayloads : AsyncUpsertDriver("d1", payload)

NextInbound ==
    \/ InboundChannelState
    \/ InboundFault
    \/ InboundStatus
    \/ InboundUpsertDriver

SpecInbound == InitInbound /\ [][NextInbound]_vars

-----------------------------------------------------------------------------
(* Manager: SSR commands (manager.py:264-274, 603-663; registry.py:1055-1073,
   1129-1148) and SpecSsr: two SSR entries switched on and off over the CAN
   controller c1 *)

SSR_MASK == 65535

\* the bit indexes async_set_ssr_state accepts: 0..9
SsrAllowedBits == 0..(SSR_MAX_BITS - 1)

\* a | b for a, b >= 0
RECURSIVE BitOr(_, _)
BitOr(a, b) ==
    IF a = 0 THEN b
    ELSE IF b = 0 THEN a
    ELSE 2 * BitOr(a \div 2, b \div 2) + (IF a % 2 = 1 \/ b % 2 = 1 THEN 1 ELSE 0)

\* a & ~b for a, b >= 0
BitClear(a, b) == a - BitAnd(a, b)

\* 1 << bit
Shl1(bit) == 2 ^ bit

\* get_ssr_state_mask: 1 << bit_index of every entry that is on
RECURSIVE OrBits(_)
OrBits(bits) ==
    IF bits = {} THEN 0
    ELSE LET b == CHOOSE x \in bits : TRUE
         IN  BitOr(Shl1(b), OrBits(bits \ {b}))

GetSsrStateMask(entries) ==
    OrBits({entries[e].bit_index : e \in {x \in DOMAIN entries :
                /\ entries[x].is_on
                /\ entries[x].bit_index >= 0
                /\ entries[x].bit_index < SSR_MAX_BITS}})

\* the mask of async_set_ssr_state (lines 619-624): mask |= bit_index or
\* mask &= ~bit_index, then mask &= _SSR_MASK
SsrCommandMask(entries, bit_index, turn_on) ==
    (IF turn_on THEN BitOr(GetSsrStateMask(entries), bit_index)
     ELSE BitClear(GetSsrStateMask(entries), bit_index)) % (SSR_MASK + 1)

\* get_controllers(): dict order
ControllerOrder == <<"c1", "c2">>

\* _get_can_controller_id: the first controller with has_can_interface;
\* None stands for the LedDriverError raised when there is none or when it
\* is not in _serial_helpers
GetCanControllerId ==
    LET flagged == SelectSeq(ControllerOrder,
                       LAMBDA c : c \in DOMAIN controllers /\ controllers[c].has_can_interface)
    IN  IF flagged = << >> \/ helpers[Head(flagged)] = "absent" THEN None
        ELSE Some(Head(flagged))

\* the "can" message of async_set_ssr_state (lines 626-641)
SsrMessage(controller_id, base_address, mask) ==
    [ctrl |-> controller_id, cm |-> "can", a |-> "send",
     d |-> <<base_address % 256, 0, 3, (mask \div 256) % 256, mask % 256, 51, 34, 17>>]

SsrFrame ==
    UNCHANGED <<coreVars, pwmVars, serviceVars, switches, buttons, learned,
                buttonVars, linkVars>>

\* async_set_ssr_state: every check that raises comes before the message is
\* logged and sent; then the entry's is_on is stored and committed
AsyncSetSsrState(ssr_id, turn_on) ==
    LET can == GetCanControllerId
        known == ssr_id \in DOMAIN ssr.entries
        fails == \/ can = None
                 \/ ssr.base_address <= 0
                 \/ ~known
                 \/ ssr.entries[ssr_id].bit_index \notin SsrAllowedBits
        mask == SsrCommandMask(ssr.entries, ssr.entries[ssr_id].bit_index, turn_on)
    IN  /\ IF fails
           THEN /\ ssr' = ssr
                /\ sent' = << >>
                /\ logged' = << >>
                /\ ncommit' = 0
                /\ result' = "error"
           ELSE /\ ssr' = [ssr EXCEPT !.entries[ssr_id].is_on = turn_on]
                /\ sent' = <<SsrMessage(can[1], ssr.base_address, mask)>>
                /\ logged' = TxLog(sent')
                /\ ncommit' = 2
                /\ result' = "ok"
        /\ op' = OpRecord("set_ssr", ssr_id, {}, {}, {})
        /\ SsrFrame

\* async_set_ssr_base_address: the value is clamped to 0..255
AsyncSetSsrBaseAddress(base_address) ==
    /\ ssr' = [ssr EXCEPT !.base_address = Max(0, Min(255, base_address))]
    /\ sent' = << >>
    /\ logged' = << >>
    /\ ncommit' = 1
    /\ result' = "ok"
    /\ op' = OpRecord("set_ssr_base_address", "ssr", {}, {}, {})
    /\ SsrFrame

\* entries e0 on bit 1 and e1 on bit 2, both off, no base address yet; c1
\* is the CAN controller or no controller is, and c1 is tracked or not
InitSsr ==
    /\ drivers = InitDrivers(ConfiguredOutput("d1", 0, {0}, 1, 2),
                             ConfiguredOutput("d1", 1, {0, 1}, 0, 1),
                             ConfiguredOutput("d2", 0, {0}, 0, 1))
    /\ groups = InitGroups(drivers, [g1 |-> <<oA>>, g2 |-> <<oB, oC>>])
    /\ \E h \in {"connected", "absent"} :
         helpers = [c \in CtrlIds |-> IF c = "c1" THEN h ELSE "connected"]
    /\ InitHistory
    /\ switches = << >>
    /\ buttons = << >>
    /\ learned = {}
    /\ ssr = [base_address |-> 0,
              entries |-> [e \in {"e0", "e1"} |->
                  [bit_index |-> IF e = "e0" THEN 1 ELSE 2, is_on |-> FALSE]]]
    /\ \E flag \in BOOLEAN :
         controllers = [c \in CtrlIds |-> [has_can_interface |-> flag /\ c = "c1"]]
    /\ IdlePwm /\ IdleButtons /\ IdleLink
    /\ IdleJson /\ IdleSync /\ IdleTasks /\ IdleConn /\ IdleDispatch

SsrCall == \E e \in {"e0", "e1", "e2"}, turn_on \in BOOLEAN : AsyncSetSsrState(e, turn_on)

SsrBaseAddressCall == \E v \in {-1, 5} : AsyncSetSsrBaseAddress(v)

\* e0 moved to bit 3 or back to bit 1
SsrMovePayloads == {[id |-> Some("e0"), bit_index |-> Some(n)] : n \in {1, 3}}

SsrMoveCall == \E payload \in SsrMovePayloads : AsyncUpsertSsrEntry(payload)

NextSsr ==
    \/ SsrCall
    \/ SsrBaseAddressCall
    \/ SsrMoveCall

SpecSsr == InitSsr /\ [][NextSsr]_vars

-----------------------------------------------------------------------------
(* Manager: the tasks of inbound events (manager.py:210-258, 967-985) and the
   registry's commit (registry.py:162-168, 564-589).  Each event of c1 gets
   a task; a task runs from one await to the next in one step.  Every
   commit saves under _save_lock, an asyncio.Lock, which hands the lock to
   its waiters in the order they asked; the save itself takes time.  A task
   is at "start" (created), "waiting" for the lock, "saving" under the
   lock, or "done"; stage counts the commits it has finished. *)

MaxEvents == 3

EventFrame == UNCHANGED <<helpers, pwmVars, switchVars, buttonVars, linkVars, jsonVars,
                          syncVars, tasks, connVars, controllerVars, dispatchVars>>

\* async_save: async with self._save_lock
AcquireSaveLock(e, i) ==
    IF e.lock = None /\ e.waiters = << >>
    THEN [e EXCEPT !.lock = Some(i), !.tasks[i].pc = "saving"]
    ELSE [e EXCEPT !.waiters = Append(@, i), !.tasks[i].pc = "waiting"]

\* the end of the async with block: the first waiter gets the lock
ReleaseSaveLock(e) ==
    IF e.waiters = << >>
    THEN [e EXCEPT !.lock = None]
    ELSE [e EXCEPT !.lock = Some(Head(e.waiters)),
                   !.waiters = Tail(@),
                   !.tasks[Head(e.waiters)].pc = "saving"]

\* _on_led_channel_state / _on_status_message called by the listener loop:
\* hass.async_create_task
EventReceived(kind, payload) ==
    /\ events # None
    /\ Len(events[1].tasks) < MaxEvents
    /\ events' = Some([events[1] EXCEPT
                          !.tasks = Append(@, [kind |-> kind, payload |-> payload,
                                               pc |-> "start", stage |-> 0])])
    /\ UNCHANGED <<coreVars, histVars>>
    /\ EventFrame

\* the first step of an event's task, the tasks starting in the order of
\* their creation: async_append_serial_log appends the entry and commits
EventTaskStarts(i) ==
    /\ events # None
    /\ i \in 1..Len(events[1].tasks)
    /\ events[1].tasks[i].pc = "start"
    /\ \A j \in 1..(i - 1) : events[1].tasks[j].pc # "start"
    /\ events' = Some(AcquireSaveLock(events[1], i))
    /\ logged' = <<LogEntry("c1", "rx")>>
    /\ ncommit' = 1
    /\ sent' = << >>
    /\ result' = "none"
    /\ op' = OpRecord("event_task", "c1", {}, {}, {})
    /\ UNCHANGED coreVars
    /\ EventFrame

\* the save of task i returns and the task runs to its next await.  A
\* channel-state task applies its event after the first commit; a status
\* task logs the message once more in _handle_status_response and applies
\* the snapshot after that second commit.  A task that changed something
\* commits again and is done after that commit.
EventSaveCompletes(i) ==
    LET e == events[1]
        t == e.tasks[i]
        released == ReleaseSaveLock(e)
        applies == \/ t.kind = "channel_state" /\ t.stage = 0
                   \/ t.kind = "status" /\ t.stage = 1 /\ t.payload.t = "status"
        matches == IF t.kind = "channel_state"
                   THEN MatchOutputs(drivers, "c1", t.payload.dvr, t.payload.c, t.payload.i)
                   ELSE SnapshotNamed(drivers, "c1", t.payload.drvs)
        new == IF ~applies THEN drivers
               ELSE IF t.kind = "channel_state"
               THEN MapOutputs(drivers, [oid \in matches |->
                                            ApplyChannelState(OutputOf(oid), t.payload)])
               ELSE ApplyStatusSnapshot(drivers, "c1", t.payload.drvs)
        changed == ChangedOutputs(drivers, new)
        relogs == t.kind = "status" /\ t.stage = 0
        Staged(x) == [x EXCEPT !.tasks[i].stage = t.stage + 1]
        Done(x) == [x EXCEPT !.tasks[i].pc = "done", !.tasks[i].stage = t.stage + 1]
    IN  /\ events # None
        /\ i \in 1..Len(e.tasks)
        /\ e.lock = Some(i)
        /\ t.pc = "saving"
        /\ drivers' = new
        /\ groups' = UpdateGroupsFromOutputIds(new, groups, changed)
        /\ helpers' = helpers
        /\ \E meta_changed \in (IF applies /\ t.kind = "status" THEN BOOLEAN ELSE {FALSE}) :
              LET commits == relogs \/ (applies /\ (changed # {} \/ meta_changed))
              IN  /\ events' = Some(
                        LET x == IF commits THEN AcquireSaveLock(Staged(released), i)
                                 ELSE Done(released)
                        IN  [x EXCEPT !.applied = IF changed # {} THEN Append(@, i) ELSE @])
                  /\ ncommit' = IF commits THEN 1 ELSE 0
        /\ logged' = IF relogs THEN <<LogEntry("c1", "rx")>> ELSE << >>
        /\ sent' = << >>
        /\ result' = "none"
        /\ op' = OpRecord(IF applies THEN t.kind ELSE "event_task", "c1",
                          IF applies THEN matches ELSE {}, changed,
                          FlippedGroups(groups, groups'))
        /\ UNCHANGED <<pwmVars, switchVars, buttonVars, linkVars, jsonVars,
                       syncVars, tasks, connVars, controllerVars, dispatchVars>>

-----------------------------------------------------------------------------
(* SpecEvents: channel-state events and status snapshots about oB (slot 1 of
   driver 0, channels 0 and 1) arriving from c1 *)

InitEvents ==
    /\ InitIdleRegistry
    /\ IdleJson /\ IdleSync /\ IdleConn /\ IdleControllers /\ IdleDispatch
    /\ tasks = None
    /\ events = Some([tasks |-> << >>, lock |-> None, waiters |-> << >>,
                      applied |-> << >>])

\* status messages that report oB on or off
EventStatusMessages ==
    {[t |-> "status",
      drvs |-> <<[idx |-> 0, cs |-> <<[idx |-> 1, on |-> Some(on), sa |-> "",
                                       pwm |-> None, flt |-> None]>>]>>] :
        on \in BOOLEAN}

EventArrives ==
    \/ \E ev \in GroupSpecEvents : EventReceived("channel_state", ev)
    \/ \E response \in EventStatusMessages : EventReceived("status", response)

EventTaskRuns ==
    \E i \in 1..MaxEvents : EventTaskStarts(i) \/ EventSaveCompletes(i)

NextEvents ==
    \/ EventArrives
    \/ EventTaskRuns

SpecEvents == InitEvents /\ [][NextEvents]_vars

-----------------------------------------------------------------------------
(* Properties of the event handlers, checked under Spec *)

\* C2 (as amended): a channel-state event that matches no output leaves the
\* drivers, their outputs and the groups unchanged, but it still appends one
\* "rx" entry to the controller's serial log and commits exactly once.
C2_UnmatchedEventOnlyLogs ==
    [][(op'.kind = "channel_state" /\ op'.matched = {})
          => /\ drivers' = drivers
             /\ groups' = groups
             /\ logged' = <<[ctrl |-> op'.target, dir |-> "rx"]>>
             /\ ncommit' = 1]_vars

\* C2 as stated: a channel-state event that matches no output leaves the
\* whole registry unchanged, controller metadata included, and commits zero
\* times.
C2_UnmatchedEventLeavesRegistry ==
    [][(op'.kind = "channel_state" /\ op'.matched = {})
          => /\ drivers' = drivers
             /\ groups' = groups
             /\ logged' = << >>
             /\ ncommit' = 0]_vars

\* an unmatched channel-state event has just been processed
C2_Witness ==
    /\ op.kind = "channel_state"
    /\ op.matched = {}
    /\ Len(logged) = 1
    /\ ncommit = 1

\* the group g has o as its only member and the step is a fault or
\* fault_cleared event for o, which is enabled and lit before and after
SoleLitMemberFaultStep(g, o, kind) ==
    /\ groups[g].led_ids = <<o>>
    /\ op'.kind = kind
    /\ o \in op'.matched
    /\ ~OutputOf(o).disabled
    /\ OutputOf(o).level > 0
    /\ drivers'[o[1]].outputs[o[2]].level > 0

\* C3 (as amended): for a group whose only member is an enabled output that
\* is lit the whole time, a led.fault event for that output leaves is_on
\* true (a faulted output counts as on) and the led.fault_cleared event that
\* follows leaves it true as well.
C3_FaultKeepsGroupOn ==
    [][\A g \in GroupIds : \A o \in AllOutputs :
          /\ SoleLitMemberFaultStep(g, o, "fault") => groups'[g].is_on
          /\ (SoleLitMemberFaultStep(g, o, "fault_cleared") /\ OutputOf(o).faulty)
                => groups'[g].is_on]_vars

\* C3 as stated: the led.fault event sets the group's is_on to false and the
\* following led.fault_cleared event sets it back to true.
C3_FaultTogglesGroup ==
    [][\A g \in GroupIds : \A o \in AllOutputs :
          /\ SoleLitMemberFaultStep(g, o, "fault") => ~groups'[g].is_on
          /\ (SoleLitMemberFaultStep(g, o, "fault_cleared") /\ OutputOf(o).faulty)
                => groups'[g].is_on]_vars

\* a fault on the lit sole member of a group has just been cleared, and the
\* group is on
C3_Witness ==
    \E g \in GroupIds : \E o \in AllOutputs :
        /\ groups[g].led_ids = <<o>>
        /\ op.kind = "fault_cleared"
        /\ o \in op.changed
        /\ ~OutputOf(o).disabled
        /\ OutputOf(o).level > 0
        /\ ~OutputOf(o).faulty
        /\ groups[g].is_on


-----------------------------------------------------------------------------
(* Properties of events, commands and registry calls, checked under SpecGroup *)

\* C1: after any sequence of events, commands, ramp steps and registry
\* upserts and deletes, every group's stored is_on is true exactly when the
\* group has an enabled member and every enabled member has level > 0 or is
\* faulty.
C1_GroupFlagMatchesMembers ==
    \A g \in DOMAIN groups :
        LET members == {oid \in SeqToSet(groups[g].led_ids) : OutputExists(oid)}
            enabled == {oid \in members : ~OutputOf(oid).disabled}
        IN  groups[g].is_on <=>
                /\ enabled # {}
                /\ \A oid \in enabled : OutputOf(oid).level > 0 \/ OutputOf(oid).faulty

-----------------------------------------------------------------------------
(* Properties of driver re-upserts, checked under SpecDriver *)

\* C13: after async_upsert_driver on the stored driver d1, the driver has
\* the four outputs of slots 0..3, and every slot the payload does not name
\* keeps its id, channels, disabled, faulty, pwm, level, min_pwm and max_pwm.
C13_ReupsertKeepsAbsentSlots ==
    [][\A payload \in StoredDriverPayloads :
           AsyncUpsertDriver("d1", payload) =>
               /\ DOMAIN drivers'["d1"].outputs = Slots
               /\ \A s \in Slots : drivers'["d1"].outputs[s].slot = s
               /\ \A s \in Slots \ DOMAIN payload.outputs :
                      \A f \in {"id", "channels", "disabled", "faulty", "pwm", "level",
                                "min_pwm", "max_pwm"} :
                          drivers'["d1"].outputs[s][f] = drivers["d1"].outputs[s][f]
      ]_vars

-----------------------------------------------------------------------------
(* Properties of the user commands, checked under SpecCmd *)

StrictKinds == {"group_on", "group_off", "pwm_targets", "set_pwm"}

\* C7: a strict command (group on/off, group PWM targets, single-output PWM)
\* that targets a controller whose transport is not connected, whether absent
\* from the manager's map or present with its link down, fails instead of
\* being reported as queued: a command answered "queued" has sent only to
\* connected controllers.
C7_StrictCommandNeedsConnection ==
    [][(op'.kind \in StrictKinds /\ result' = "queued")
          => \A i \in DOMAIN sent' : helpers[sent'[i].ctrl] = "connected"]_vars

\* the members of group g that address slot s of driver index idx of
\* controller c
SlotWriters(g, c, idx, s) ==
    {oid \in SeqToSet(groups[g].led_ids) :
        /\ OutputExists(oid)
        /\ drivers[oid[1]].controller_id = c
        /\ drivers[oid[1]].driver_index = idx
        /\ s \in OutputChannels(OutputOf(oid))}

\* C8: no "on" message of a group turn-on addresses a channel of a disabled
\* member: in each 4-slot array a slot whose only writers are disabled
\* members carries -1.
C8_OnSkipsDisabledMembers ==
    [][op'.kind = "group_on"
          => \A i \in DOMAIN sent' : \A k \in DOMAIN sent'[i].drvs : \A s \in Slots :
                (\A oid \in SlotWriters(op'.target, sent'[i].ctrl, sent'[i].drvs[k].drv, s) :
                     OutputOf(oid).disabled)
                    => sent'[i].drvs[k].cs[s] = -1]_vars

\* C20: a Manager operation that mutates an Output or a Group commits after
\* its last mutation, also when it fails part-way; so every operation that
\* left an Output or a Group changed has committed at least once.
C20_MutationIsCommitted ==
    [][(drivers' # drivers \/ groups' # groups) => ncommit' > 0]_vars

\* the controllers of the member outputs of group g
GroupControllers(g) ==
    {drivers[oid[1]].controller_id :
        oid \in {x \in SeqToSet(groups[g].led_ids) : OutputExists(x)}}

\* C39: a strict group command (group on/off, group PWM targets) that fails
\* while a controller of the group's outputs has no transport in the
\* manager's map has enqueued no message to any controller and has changed
\* no output field.
C39_StrictGroupCommandAllOrNothing ==
    [][(/\ op'.kind \in {"group_on", "group_off", "pwm_targets"}
        /\ result' = "error"
        /\ op'.target \in DOMAIN groups
        /\ \E c \in GroupControllers(op'.target) : helpers[c] = "absent")
          => sent' = << >> /\ drivers' = drivers]_vars

-----------------------------------------------------------------------------
(* Properties of build_group_pwm_map, checked under SpecPwm *)

\* C9: for every brightness b in 0..100 and every output included in the
\* on-batch, each slot addressed by the output's channels holds
\* trunc(min_pwm + (max_pwm - min_pwm) * b / 100) computed from that output's
\* own range, and every slot no included output addresses holds -1.
C9_PwmMapIsTruncatedScale ==
    pwmMap # None =>
        LET call == pwmMap[1]
            g == groups[call.group]
            included == {oid \in SeqToSet(g.led_ids) :
                            /\ OutputExists(oid)
                            /\ (call.include_disabled \/ ~OutputOf(oid).disabled)
                            /\ ~OutputOf(oid).faulty}
        IN  \A i \in DOMAIN call.map : \A idx \in DOMAIN call.map[i].drivers : \A s \in Slots :
                LET writers == {oid \in included :
                                   /\ drivers[oid[1]].controller_id = call.map[i].controller_id
                                   /\ drivers[oid[1]].driver_index = idx
                                   /\ s \in OutputChannels(OutputOf(oid))}
                    value == call.map[i].drivers[idx][s]
                IN  /\ writers = {} => value = -1
                    /\ \A oid \in writers :
                          LET o == OutputOf(oid)
                          IN  value = (o.min_pwm * 100 + (o.max_pwm - o.min_pwm) * g.brightness)
                                          \div 100

-----------------------------------------------------------------------------
(* Properties of the switch and button registry, checked under SpecSwitch *)

RECURSIVE IsPowerOfTwo(_)
IsPowerOfTwo(n) == n = 1 \/ (n > 1 /\ n % 2 = 0 /\ IsPowerOfTwo(n \div 2))

\* C10: in every state reached by switch and button upserts and deletes,
\* every button's mask is a positive power of two and no two buttons of the
\* same switch_id have the same mask.
C10_ButtonMasksDistinctSingleBits ==
    /\ \A b \in DOMAIN buttons : IsPowerOfTwo(buttons[b].mask)
    /\ \A b1, b2 \in DOMAIN buttons :
          (b1 # b2 /\ buttons[b1].switch_id = buttons[b2].switch_id)
              => buttons[b1].mask # buttons[b2].mask

\* two buttons on one switch, and the last call was an upsert that was
\* refused
C10_Witness ==
    /\ \E b1, b2 \in DOMAIN buttons :
          b1 # b2 /\ buttons[b1].switch_id = buttons[b2].switch_id
    /\ op.kind = "upsert_button"
    /\ result = "error"

\* C12: in every state reached by switch and button upserts and deletes,
\* the number of buttons whose switch_id is a given switch is at most that
\* switch's button_count.
C12_ButtonCountWithinLimit ==
    \A s \in DOMAIN switches :
        Cardinality({b \in DOMAIN buttons : buttons[b].switch_id = s})
            <= switches[s].button_count

-----------------------------------------------------------------------------
(* Properties of the registry's upserts, checked under SpecRegistry *)

\* C11: a button upsert that is accepted stores a single-bit mask no sibling
\* has and, when it puts the button on a switch it was not on, keeps that
\* switch within its button_count; an SSR upsert that is accepted stores a
\* bit index in 0..SSR_MAX_BITS-1 that no other entry has and keeps the
\* entries within SSR_MAX_ENTRIES; every other such upsert ends in an error,
\* and an upsert that ends in an error leaves drivers, groups, switches,
\* buttons and SSR entries as they were and commits nothing.
C11_InvalidUpsertRejected ==
    [][/\ (op'.kind = "upsert_button" /\ result' = "ok") =>
              LET b == op'.target
                  on == buttons'[b].switch_id
                  siblings == {x \in DOMAIN buttons' : buttons'[x].switch_id = on}
              IN  /\ IsPowerOfTwo(buttons'[b].mask)
                  /\ \A x \in siblings \ {b} : buttons'[x].mask # buttons'[b].mask
                  /\ (b \notin DOMAIN buttons \/ buttons[b].switch_id # on)
                         => Cardinality(siblings) <= switches'[on].button_count
       /\ (op'.kind = "upsert_ssr_entry" /\ result' = "ok") =>
              LET e == op'.target
              IN  /\ ssr'.entries[e].bit_index \in 0..(SSR_MAX_BITS - 1)
                  /\ \A x \in DOMAIN ssr'.entries \ {e} : ssr'.entries[x].bit_index # ssr'.entries[e].bit_index
                  /\ Cardinality(DOMAIN ssr'.entries) <= SSR_MAX_ENTRIES
       /\ (op'.kind \in {"upsert_button", "upsert_ssr_entry"} /\ result' = "error") =>
              /\ UNCHANGED <<drivers, groups, switches, buttons, ssr>>
              /\ ncommit' = 0
      ]_vars

-----------------------------------------------------------------------------
(* Properties of the switch buttons, checked under SpecButtons *)

\* C4: for a button bound to a group, a press edge within the double-press
\* window (0.5 s, bounds included) after that button's last release reverses
\* its ramp direction and sends no group command; a press edge with no
\* earlier release, or after the window, sends exactly one toggle command
\* (off if the group's is_on is true, otherwise on) and leaves the direction
\* as it was.  The bound group g1 has its member on one tracked controller,
\* so one command is one message.
C4_PressTogglesOrReverses ==
    [][\A k \in DOMAIN buttonStates :
          LET st == buttonStates[k]
              g == st.group_id[1]
          IN  (st.group_id # None /\ g \in DOMAIN groups
                  /\ ~st.pressed /\ buttonStates'[k].pressed)
              => IF st.last_release # 0 /\ now - st.last_release <= SWITCH_DOUBLE_PRESS_WINDOW
                 THEN /\ buttonStates'[k].direction = -st.direction
                      /\ sent' = << >>
                 ELSE /\ buttonStates'[k].direction = st.direction
                      /\ Len(sent') = 1
                      /\ sent'[1].a = (IF groups[g].is_on THEN "off" ELSE "on")]_vars

\* a button whose direction a double press has reversed is pressed again
\* after the window, and the press has turned its lit group off
C4_Witness ==
    \E k \in DOMAIN buttonStates :
        /\ buttonStates[k].direction = -1
        /\ buttonStates[k].pressed
        /\ buttonStates[k].hold_started - buttonStates[k].last_release > SWITCH_DOUBLE_PRESS_WINDOW
        /\ op.kind = "button_event"
        /\ Len(sent) = 1
        /\ sent[1].a = "off"

-----------------------------------------------------------------------------
(* Properties of the JsonHelper listener task, checked under SpecJson *)

\* C14: when the listener loop takes a line that is not a well-formed event
\* (invalid JSON, JSON that is no object, an object whose type is missing
\* or unknown, an event without a string name), no callback is invoked and
\* the loop keeps running.
C14_MalformedLineOnlyDropped ==
    [][(/\ listener # None /\ listener' # None
        /\ listener[1].running
        /\ listener[1].read_queue # << >>
        /\ listener'[1].read_queue = Tail(listener[1].read_queue)
        /\ EventKey(Head(listener[1].read_queue)) = None)
           => (listener'[1].called = << >> /\ listener'[1].running)
      ]_vars

-----------------------------------------------------------------------------
(* Properties of the reconciliation, checked under SpecSync *)

\* C15: whenever no _sync_clients task is pending or running, _serial_helpers
\* holds a helper for c1 exactly when c1 is in the registry with a port, and
\* that helper was created with c1's current port and baud rate.
C15_HelperMapMatchesRegistry ==
    (sync # None /\ \A r \in SyncRuns : sync[1].runs[r].pc = "idle") =>
        LET c == sync[1].controller
        IN  IF c.present /\ c.port # None
            THEN /\ sync[1].serial_helper # None
                 /\ LET h == sync[1].transports[sync[1].serial_helper[1]]
                    IN  h.port = c.port[1] /\ h.baudrate = c.baudrate
            ELSE sync[1].serial_helper = None

\* no _sync_clients task is pending or suspended, and every task that was
\* created or cancelled has run since
Reconciled ==
    /\ sync # None
    /\ \A r \in SyncRuns : sync[1].runs[r].pc = "idle"
    /\ PollTasksSettled(sync[1])
    /\ \A h \in DOMAIN sync[1].listeners : sync[1].listeners[h] = "running"

\* the poll loops of c1 that are in their while loop
PollLoops == {p \in DOMAIN sync[1].polls : sync[1].polls[p] = "looping"}

\* C34: after the reconciliation has finished at most one poll loop runs for
\* c1, and one runs exactly when c1 is in the registry with polling enabled
\* (none for a deleted controller, with or without a port), also after a
\* loop was stopped and started again before the cancelled loop had ended.
C34_PollLoopIffPollingEnabled ==
    Reconciled =>
        /\ Cardinality(PollLoops) <= 1
        /\ PollLoops # {} <=>
              (sync[1].controller.present /\ sync[1].controller.polling_enabled)

\* the SerialHelper objects created and not closed
OpenTransports == {h \in DOMAIN sync[1].transports : ~sync[1].transports[h].closed}

\* C37: once the reconciliation runs have finished, also overlapping ones,
\* every SerialHelper created and not closed is the one _serial_helpers holds
\* for c1, and the listener task of c1 reads the read_queue of that helper.
C37_OpenTransportIsMappedAndRead ==
    Reconciled =>
        \A h \in OpenTransports :
            /\ sync[1].serial_helper = Some(h)
            /\ sync[1].helper_task = Some(h)
            /\ h \in DOMAIN sync[1].listeners

-----------------------------------------------------------------------------
(* Properties of async_shutdown, checked under SpecShutdown *)

\* C16: once async_shutdown has returned, the dispatch (listener) task, the
\* poll task, the reconnect task and the ramp task are all done, and from
\* then on nothing is sent or logged and drivers and groups do not change.
C16_ShutdownEndsEveryTask ==
    /\ []((tasks # None /\ tasks[1].shutdown = "returned") =>
              \A kind \in TaskKinds : tasks[1].state[kind] = "none")
    /\ [][(tasks # None /\ tasks[1].shutdown = "returned") =>
              UNCHANGED <<coreVars, histVars>>]_vars

-----------------------------------------------------------------------------
(* Properties of the SerialHelper's close and reconnect, checked under
   SpecHelper *)

\* C17: once async_close has returned and async_connect was not called
\* since, the helper has no reconnect loop and is not connected, also when
\* async_close ran while a failure recovery was suspended in its teardown.
C17_ClosedStaysClosed ==
    conn.closed => (conn.L = "none" /\ conn.writer # "open")

-----------------------------------------------------------------------------
(* Properties of the SerialHelper's recovery, checked under SpecRecovery *)

\* the helper is connected with its reader loop and its writer loop
HelperUp ==
    /\ conn.writer = "open"
    /\ conn.R = "running" /\ conn.reader_task
    /\ conn.W = "running" /\ conn.writer_task
    /\ conn.H = "none"

\* C19: when async_close is never called and the port eventually stays
\* openable, a helper that lost its connection is eventually connected
\* again with one reader loop and one writer loop, after each failure.
C19_FailureRecovers ==
    <>[]port => [](~HelperUp => <>(HelperUp /\ ~conn.reconnecting /\ conn.L = "none"))

\* the helper is connected again after two failures
C19_Witness ==
    HelperUp /\ conn.opens = MaxOpens /\ ~conn.reconnecting

-----------------------------------------------------------------------------
(* Properties of the group "off" command, checked under SpecOff *)

\* the enabled member outputs of group g on controller c
EnabledMembersOn(g, c) ==
    {oid \in SeqToSet(ResolveOutputIds(groups[g].led_ids)) :
        ~OutputOf(oid).disabled /\ drivers[oid[1]].controller_id = c}

\* message m lists, per driver index, exactly the channels of the outputs
\* in members, each driver index and each channel once
ListsChannelsOf(m, members) ==
    /\ {m.drvs[k].drv : k \in 1..Len(m.drvs)} = {drivers[oid[1]].driver_index : oid \in members}
    /\ \A k, j \in 1..Len(m.drvs) : m.drvs[k].drv = m.drvs[j].drv => k = j
    /\ \A k \in 1..Len(m.drvs) :
          LET wanted == UNION {OutputChannels(OutputOf(oid)) :
                                  oid \in {x \in members :
                                              drivers[x[1]].driver_index = m.drvs[k].drv}}
          IN  /\ SeqToSet(m.drvs[k].cs) = wanted
              /\ Len(m.drvs[k].cs) = Cardinality(wanted)

-----------------------------------------------------------------------------
(* Properties of explicit PWM targets, checked under SpecTargets *)

\* the "pwm" messages sent to controller c with the value v
TargetMessages(c, v) ==
    {i \in 1..Len(sent) : sent[i].ctrl = c /\ sent[i].a = "pwm" /\ sent[i].pwm = v}

\* the messages sent to controller c that list channel ch of driver idx
MessagesListing(c, idx, ch) ==
    {i \in 1..Len(sent) :
        /\ sent[i].ctrl = c
        /\ \E k \in 1..Len(sent[i].drvs) :
              sent[i].drvs[k].dvr = idx /\ ch \in SeqToSet(sent[i].drvs[k].cs)}

\* the outputs that took a target are within their ranges, each controller
\* got one message per distinct value, and every channel of such an output
\* is in one message, the one with the output's value
TargetsDelivered ==
    /\ \A oid \in op.matched :
          /\ OutputOf(oid).min_pwm <= OutputOf(oid).target_pwm
          /\ OutputOf(oid).target_pwm <= OutputOf(oid).max_pwm
    /\ \A c \in CtrlIds :
          LET values == {OutputOf(oid).target_pwm :
                            oid \in {x \in op.matched : drivers[x[1]].controller_id = c}}
          IN  /\ \A v \in values : Cardinality(TargetMessages(c, v)) = 1
              /\ Cardinality({i \in 1..Len(sent) : sent[i].ctrl = c}) = Cardinality(values)
    /\ \A oid \in op.matched : \A ch \in OutputChannels(OutputOf(oid)) :
          \E i \in 1..Len(sent) :
              /\ MessagesListing(drivers[oid[1]].controller_id,
                                 drivers[oid[1]].driver_index, ch) = {i}
              /\ sent[i].pwm = OutputOf(oid).target_pwm

\* no two of the outputs that took a target drive the same channel of the
\* same driver
TargetChannelsDisjoint ==
    \A x, y \in op.matched :
        (x # y /\ drivers[x[1]].controller_id = drivers[y[1]].controller_id
               /\ drivers[x[1]].driver_index = drivers[y[1]].driver_index)
            => OutputChannels(OutputOf(x)) \cap OutputChannels(OutputOf(y)) = {}

-----------------------------------------------------------------------------
(* Properties of the ramp tasks, checked under SpecButtons *)

\* the ramp tasks of a button state that nothing has cancelled
LiveRampTasks(st) == (IF st.ramp # "none" THEN 1 ELSE 0) + st.orphans

\* C29: every button has at most one ramp task that is not cancelled, and
\* a PWM step of the ramp is only made while the button is pressed by the
\* task ramp_task refers to; the release edge cancels that task and empties
\* ramp_task, so a task that was there before a handled release makes no
\* further step.
C29_OneRampTaskNoneAfterRelease ==
    /\ [](\A k \in DOMAIN buttonStates : LiveRampTasks(buttonStates[k]) <= 1)
    /\ [][(op'.kind = "ramp_step" /\ drivers' # drivers) =>
             \E k \in DOMAIN buttonStates :
                 /\ buttonStates[k].group_id = Some(op'.target)
                 /\ buttonStates[k].pressed
                 /\ buttonStates[k].ramp = "running"]_vars

\* the ramp task of the button made a step, the release edge cancelled it,
\* and the task has ended on its CancelledError
C29_Witness ==
    /\ op.kind = "ramp_cancelled"
    /\ OutputOf(oA).pwm = 2
    /\ \A k \in DOMAIN buttonStates :
          /\ ~buttonStates[k].pressed
          /\ buttonStates[k].last_release # 0
          /\ buttonStates[k].ramp = "none"
          /\ buttonStates[k].cancelled = 0

-----------------------------------------------------------------------------
(* Properties of the ramp step, checked under SpecStep *)

\* C25: a ramp step whose batch targets a controller without a helper and a
\* tracked controller raises no error (it returns True, so the ramp loop
\* goes on), and every channel of an output it moved on the tracked
\* controller is in a message sent to that controller with the output's
\* new value.
C25_AmbientDispatchSkipsUntracked ==
    op.kind = "ramp_step" =>
        /\ result = "ok"
        /\ \A oid \in op.changed :
              helpers[drivers[oid[1]].controller_id] # "absent" =>
                  \A ch \in OutputChannels(OutputOf(oid)) :
                      \E i \in MessagesListing(drivers[oid[1]].controller_id,
                                               drivers[oid[1]].driver_index, ch) :
                          sent[i].pwm = OutputOf(oid).pwm

\* a step moved an output on the untracked c2 and, after it in the batch,
\* an output on c1
C25_Witness ==
    /\ op.kind = "ramp_step"
    /\ op.target = "g2"
    /\ op.changed = {oC, oA}
    /\ helpers["c2"] = "absent"
    /\ Len(sent) = 1

\* C30: after every ramp step each output the step moved has its pwm
\* within its own range min_pwm..max_pwm, whatever pwm it had before.
C30_StepStaysInRange ==
    op.kind = "ramp_step" =>
        \A oid \in op.changed :
            /\ OutputOf(oid).min_pwm <= OutputOf(oid).pwm
            /\ OutputOf(oid).pwm <= OutputOf(oid).max_pwm

-----------------------------------------------------------------------------
(* Properties of the controllers, checked under SpecControllers *)

\* C27: after any sequence of controller upserts and deletes at most one
\* controller of the registry has has_can_interface set.
C27_AtMostOneCanBridge ==
    Cardinality({c \in DOMAIN controllers : controllers[c].has_can_interface}) <= 1

\* an upsert with the flag has taken it from the controller that had it
C27_Witness ==
    /\ op.kind = "upsert_controller"
    /\ op.changed # {}
    /\ op.target \in DOMAIN controllers
    /\ controllers[op.target].has_can_interface

-----------------------------------------------------------------------------
(* Properties of the learned buttons, checked under SpecLearn *)

\* C22: in every reachable state no learned-button record exists for a
\* (switch address, mask) pair that a button occupies.
C22_NoLearnedForOccupiedPair ==
    \A b \in DOMAIN buttons : <<buttons[b].switch, buttons[b].mask>> \notin learned

\* C31: a button event records a learned discovery only for a bit that is
\* set in the reported mask, was not set in the mask the switch reported
\* before, and is the mask of no button state of that switch; an event that
\* repeats the mask the switch reported before records nothing, whether or
\* not the switch has a mapped button.
C31_LearnsNewUnknownBitsOnly ==
    [][\A s \in LearnAddresses, mask \in LearnMasks :
          HandleButtonEvent(s, mask) =>
              LET previous == IF s \in DOMAIN reported THEN reported[s] ELSE 0
              IN  /\ \A k \in op'.changed :
                        /\ k[1] = s
                        /\ MaskHas(mask, k[2])
                        /\ ~MaskHas(previous, k[2])
                        /\ k \notin DOMAIN buttonStates
                  /\ mask = previous => op'.changed = {}]_vars

-----------------------------------------------------------------------------
(* Properties of JsonHelper's dispatch, checked under SpecDispatch *)

\* C21: for each SerialHelper, the callbacks are invoked for its lines in
\* the order the lines arrived: no invocation for an earlier line of a
\* helper comes after an invocation for a later line of the same helper.
C21_CallbacksInArrivalOrder ==
    \A a, b \in 1..Len(json_helper.invoked) :
        (a < b /\ json_helper.invoked[a].helper = json_helper.invoked[b].helper)
            => json_helper.invoked[a].seq <= json_helper.invoked[b].seq

C21_Witness ==
    \E a, b \in 1..Len(json_helper.invoked) :
        /\ json_helper.invoked[a].helper = json_helper.invoked[b].helper
        /\ json_helper.invoked[a].seq < json_helper.invoked[b].seq
        /\ \E c \in 1..Len(json_helper.invoked) :
              json_helper.invoked[c].helper # json_helper.invoked[a].helper

\* C26: when a callback raises on a message, the callback registered after
\* it is still invoked for the same message, and the listener task that
\* invoked them keeps running, so that it dispatches the later lines.
C26_RaiseStopsNothing ==
    /\ [](\A a \in 1..Len(json_helper.invoked) :
            json_helper.invoked[a].raised =>
                /\ a < Len(json_helper.invoked)
                /\ json_helper.invoked[a + 1].helper = json_helper.invoked[a].helper
                /\ json_helper.invoked[a + 1].seq = json_helper.invoked[a].seq
                /\ json_helper.invoked[a + 1].callback = Callbacks[2])
    /\ [][Len(json_helper'.invoked) > Len(json_helper.invoked)
            => json_helper'.tasks = json_helper.tasks]_vars

C26_Witness ==
    \E a, b \in 1..Len(json_helper.invoked) :
        /\ json_helper.invoked[a].raised
        /\ a < b
        /\ json_helper.invoked[b].helper = json_helper.invoked[a].helper
        /\ json_helper.invoked[b].seq > json_helper.invoked[a].seq

\* C28: after register_helper(name, helper) the listener task of the name
\* reads the inbound queue of the helper that is registered, the one that
\* async_send(name, ...) writes to.
C28_ListenerReadsRegistered ==
    (json_helper.helper # None /\ json_helper.helper_task # None)
        => json_helper.tasks[json_helper.helper_task[1]].helper = json_helper.helper[1]

-----------------------------------------------------------------------------
(* Properties of inbound traffic, checked under SpecInbound *)

\* the outputs of the controller and driver an event addresses
AddressedOutputs(controller_id, ev) ==
    {o \in AllOutputs :
        /\ drivers[o[1]].controller_id = controller_id
        /\ (ev.dvr = None \/ drivers[o[1]].driver_index = ev.dvr[1])}

\* the enabled addressed outputs that drive the event's channel
ChannelDriven(controller_id, ev) ==
    {o \in AddressedOutputs(controller_id, ev) :
        /\ ~OutputOf(o).disabled
        /\ ev.c # None
        /\ ev.c[1] \in OutputOf(o).channels}

\* the enabled addressed outputs in the event's slot
SlotDriven(controller_id, ev) ==
    {o \in AddressedOutputs(controller_id, ev) :
        /\ ~OutputOf(o).disabled
        /\ ev.i # None
        /\ OutputOf(o).slot = ev.i[1]}

\* the step touches only the outputs in S
OnlyOutputsTouched(S) ==
    /\ op'.matched = S
    /\ \A o \in AllOutputs \ S : drivers'[o[1]].outputs[o[2]] = OutputOf(o)

\* C33: when a channel-state or fault event carries a channel that an
\* enabled output of the addressed controller and driver drives, the
\* outputs updated are exactly the enabled outputs driving that channel
\* (each takes the event's level or fault flag) and an output that matches
\* by slot only is left alone; slot matches are updated only when no
\* enabled output drives the channel.
C33_ChannelBeforeSlot ==
    [][/\ \A ev \in InboundChannelEvents :
            ProcessLedChannelState("c1", ev) =>
                IF ChannelDriven("c1", ev) # {}
                THEN /\ OnlyOutputsTouched(ChannelDriven("c1", ev))
                     /\ \A o \in ChannelDriven("c1", ev) :
                           EventLevel(ev) # None =>
                               drivers'[o[1]].outputs[o[2]].level = EventLevel(ev)[1]
                ELSE OnlyOutputsTouched(SlotDriven("c1", ev))
       /\ \A ev \in InboundFaultEvents, is_fault \in BOOLEAN :
            ProcessLedFault("c1", ev, is_fault) =>
                IF ChannelDriven("c1", ev) # {}
                THEN /\ OnlyOutputsTouched(ChannelDriven("c1", ev))
                     /\ \A o \in ChannelDriven("c1", ev) :
                           drivers'[o[1]].outputs[o[2]].faulty = is_fault
                ELSE OnlyOutputsTouched(SlotDriven("c1", ev))]_vars

\* an event for channel 1 and slot 0 has changed oB, which drives channel
\* 1, while oA sits enabled and unmatched in slot 0 (of InboundAddresses
\* only the address with channel 1 and slot 0 selects oB alone)
C33_Witness ==
    /\ op.kind \in {"channel_state", "fault", "fault_cleared"}
    /\ op.matched = {oB}
    /\ op.changed = {oB}
    /\ ~OutputOf(oA).disabled
    /\ OutputOf(oA).slot = 0
    /\ 1 \in OutputOf(oB).channels

\* the disabled outputs a fault event addresses: those of its controller
\* and driver that drive its channel or, for an event without a channel,
\* sit in its slot
AddressedDisabled(controller_id, ev) ==
    {o \in AddressedOutputs(controller_id, ev) :
        /\ OutputOf(o).disabled
        /\ \/ ev.c # None /\ ev.c[1] \in OutputOf(o).channels
           \/ ev.c = None /\ ev.i # None /\ OutputOf(o).slot = ev.i[1]}

\* C32: after a led.fault or led.fault_cleared event has been processed,
\* every disabled output it addresses has its fault flag clear: the flag
\* is never set and a flag that was set is cleared.
C32_FaultOnDisabledCleared ==
    [][\A ev \in InboundFaultEvents, is_fault \in BOOLEAN :
          ProcessLedFault("c1", ev, is_fault) =>
              \A o \in AddressedDisabled("c1", ev) :
                  ~drivers'[o[1]].outputs[o[2]].faulty]_vars

\* C40: in every reachable state a disabled output has faulty = false and
\* level = 0, whatever events and status snapshots were processed.
C40_DisabledOutputDarkAndFaultFree ==
    \A o \in AllOutputs :
        OutputOf(o).disabled => ~OutputOf(o).faulty /\ OutputOf(o).level = 0

-----------------------------------------------------------------------------
(* Properties of the SSR commands, checked under SpecSsr *)

\* the mask carried by the data bytes of a "can" message
SentSsrMask(msg) == msg.d[4] * 256 + msg.d[5]

\* is bit b of mask set
BitSet(mask, b) == (mask \div (2 ^ b)) % 2 = 1

\* C36: when async_set_ssr_state has succeeded, bit b of the mask it sent
\* is set exactly when the entry with bit index b is on after the call,
\* for the target entry and for every other entry.
C36_SsrMaskMatchesEntries ==
    (op.kind = "set_ssr" /\ result = "ok") =>
        \A b \in 0..15 :
            BitSet(SentSsrMask(sent[1]), b)
                <=> \E e \in DOMAIN ssr.entries :
                        ssr.entries[e].bit_index = b /\ ssr.entries[e].is_on

-----------------------------------------------------------------------------
(* Properties of the ramp's termination, checked under SpecRamp *)

\* the bound a ramp in the given direction moves an output to
RampBound(o, direction) == IF direction >= 0 THEN o.max_pwm ELSE o.min_pwm

\* every enabled member of group g that resolves sits at its bound
MembersAtBound(g, direction) ==
    \A oid \in SeqToSet(ResolveOutputIds(groups[g].led_ids)) :
        ~OutputOf(oid).disabled => OutputOf(oid).pwm = RampBound(OutputOf(oid), direction)

\* C35: a ramp task always ends: every running ramp task is followed by a
\* state in which the button has no ramp task left; a step is taken only
\* while the button is pressed; and a task that ends with the button still
\* held ends when every enabled member output has reached its bound.
C35_RampEnds ==
    /\ \A k \in {<<1, 1>>} :
          (buttonStates[k].ramp = "running")
              ~> (buttonStates[k].ramp = "none" /\ buttonStates[k].cancelled = 0)
    /\ [][\A k \in DOMAIN buttonStates :
            /\ (op'.kind = "ramp_step" /\ drivers' # drivers) => buttonStates[k].pressed
            /\ (op'.kind = "ramp_end" /\ buttonStates'[k] # buttonStates[k]
                    /\ buttonStates[k].pressed)
                  => MembersAtBound(buttonStates[k].group_id[1],
                                    buttonStates[k].direction)]_vars

\* a ramp has ended with the button still held, after stepping oA up to its
\* maximum
C35_Witness ==
    /\ op.kind = "ramp_end"
    /\ buttonStates[<<1, 1>>].pressed
    /\ buttonStates[<<1, 1>>].ramp = "none"
    /\ buttonStates[<<1, 1>>].direction = 1
    /\ OutputOf(oA).pwm = OutputOf(oA).max_pwm

-----------------------------------------------------------------------------
(* Properties of the event tasks, checked under SpecEvents *)

\* C38: the events of c1 change the registry in the order in which they were
\* received: an event that changes an output does so after every earlier
\* event that changes an output has done so, although each event is handled
\* in a task of its own that first awaits the commit of the serial log.
C38_MutationsInArrivalOrder ==
    events # None =>
        \A a, b \in 1..Len(events[1].applied) :
            a < b => events[1].applied[a] < events[1].applied[b]

-----------------------------------------------------------------------------
(* Properties of the transport, checked under SpecTransport and
   SpecTransportFair *)

\* how many times line l occurs in q
Occurrences(q, l) == Cardinality({i \in DOMAIN q : q[i] = l})

\* C5: after a write failure and the reconnection that follows it, every
\* line that was enqueued before the failure, the one being written
\* included, and every line enqueued after it is written to the serial link
\* exactly once: whenever the helper is connected with nothing left to
\* send, each accepted line is on the wire once.
C5_FlushedLinesWrittenOnce ==
    (link # None /\ link[1].connected /\ link[1].queue = << >> /\ link[1].inflight = None)
        => \A l \in accepted : Occurrences(wire, l) = 1

\* C6: a controller whose helper is tracked but not connected, as after a
\* failed first connect in _sync_clients, becomes connected once its port
\* can be opened, unless the port goes away again or the controller leaves
\* the registry.
C6_TrackedHelperConnects ==
    (link # None /\ ~link[1].connected /\ port)
        ~> (link = None \/ link[1].connected \/ ~port)

====
